---- MODULE Spec2Model ----
(***************************************************************************)
(* Model of the Leg1/Leg2 hedge strategy engine (src/strategy.py) together *)
(* with the parts of its collaborators that drive it: the round poll loop  *)
(* (src/main.py), the price feed's subscription filter (src/ws_client.py)  *)
(* and the order boundary (src/trader.py).                                 *)
(*                                                                         *)
(* Encoding of the numbers.  Prices, hedge_sum and move_threshold are kept *)
(* in hundredths (0.40 is 40, 0.95 is 95); shares are whole numbers; money *)
(* (combined_cost, profit, totals) is therefore in hundredths of a unit:   *)
(* a payout of `shares` units is 100 * shares.  Time is in whole seconds   *)
(* of time.monotonic().  window_minutes is kept in twentieths of a minute  *)
(* (0.05 min = 3 s), so window_sec = window_minutes * 60 is                *)
(* window_minutes * SecPerWindowUnit here.  Where the binary floating      *)
(* point of the code decides a comparison otherwise than the exact values  *)
(* do, the tables DropRoundsBelow, SumRoundsAbove and WindowRoundsBelow    *)
(* say so.                                                                 *)
(*                                                                         *)
(* Python's None is NONE (-1) for optional numbers, "None" for the         *)
(* optional outcome, NoToken / NoRound for the optional objects.           *)
(***************************************************************************)
EXTENDS Integers, Sequences, FiniteSets, TLC

\* ---------------------------------------------------------------- bounds
MaxTicks == 3       \* price ticks that get past the early return in one run
MaxWaiters == 1     \* ticks queued on the engine's lock at one time
MaxClock == 12      \* latest reading after which a window may still run out unobserved
MaxFailures == 6    \* connection attempts of the feed that fail in a row
MaxPages == 2       \* pages the listing endpoint answers with in one poll
MaxAttaches == 3    \* attach_round calls recorded in one run of SpecPoll
MaxSamples == 4     \* samples one token's price history holds before the next insert
MaxStamp == 10      \* latest timestamp a tick of SpecHistory carries
MaxCallbacks == 2   \* price callbacks recorded in one run of SpecSwitch
MaxWiredFailures == 1  \* connection attempts that fail in a row in SpecSwitch

\* ------------------------------------------------------ program constants
DefaultShares == 10
DefaultHedgeSum == 95
DefaultMoveThreshold == 15
DefaultWindowMinutes == 40
drop_window_sec == 3
TrimBufferSec == 1
SecPerWindowUnit == 3
PayoutPerShare == 100
DefaultTokenPrice == 0
DefaultMaxReconnects == 0
ws_reconnect_delay == 2
BackoffCeiling == 30
BackoffMaxExponent == 4

NONE == -1

\* ------------------------------------------------------------ input sets
TickPrices == {40, 80}
\* Seconds between one reading of time.monotonic() and the next: the length
\* of the drop window, and one more than that.
Delays == {drop_window_sec, drop_window_sec + 1}
\* (up price, down price) the discovery reports for the tokens of rounds 1
\* and 2; the clob_token_ids fallback of _extract_tokens leaves both prices
\* at the default, as for round 1.
DiscoveryPrices == <<  <<DefaultTokenPrice, DefaultTokenPrice>>, <<20, 40>>  >>
\* configure(shares, hedge_sum, move_threshold, window_minutes) as issued by
\* "auto on <shares> [sum=] [move=] [windowMin=]".
\* "auto on 10 move=0.5 windowMin=0.15", "auto on 20 move=0.6" and
\* "auto on 0 move=0.5 windowMin=0.15" (handle_auto_on takes any number for
\* <shares>); sum is left at its default.
ConfigInputs ==
    { [shares |-> 10, hedge_sum |-> DefaultHedgeSum, move_threshold |-> 50,
       window_minutes |-> 3],
      [shares |-> 20, hedge_sum |-> DefaultHedgeSum, move_threshold |-> 60,
       window_minutes |-> DefaultWindowMinutes],
      [shares |-> 0, hedge_sum |-> DefaultHedgeSum, move_threshold |-> 50,
       window_minutes |-> 3] }

Outcomes == {"UP", "DOWN"}
RoundIds == 1..Len(DiscoveryPrices)

\* ------------------------------------------------------------- data types
TokId(rid, o) == IF o = "UP" THEN 2 * rid - 1 ELSE 2 * rid
TokenIds == 1..(2 * Len(DiscoveryPrices))

MarketToken(rid, o, p) == [token_id |-> TokId(rid, o), outcome |-> o, price |-> p]
NoToken == [token_id |-> 0, outcome |-> "None", price |-> 0]

BTCRound(rid) ==
    [condition_id |-> rid,
     up_token |-> MarketToken(rid, "UP", DiscoveryPrices[rid][1]),
     down_token |-> MarketToken(rid, "DOWN", DiscoveryPrices[rid][2])]
NoRound == [condition_id |-> 0, up_token |-> NoToken, down_token |-> NoToken]

PricePoint(p, t) == [price |-> p, ts |-> t]

\* One awaited trader.buy_market call: the arguments it was made with, and
\* (history only) which leg made it and whether disable() has run since it
\* was made.
BuyCall(leg, tok, o, sh, mp) ==
    [leg |-> leg, token_id |-> tok, outcome |-> o, shares |-> sh,
     max_price |-> mp, stale |-> FALSE]
MarkStale(cs) == [i \in 1..Len(cs) |-> [cs[i] EXCEPT !.stale = TRUE]]

\* No subscribe message has been sent on the connection.
NotSent == [sent |-> FALSE, assets |-> {}]
\* fetch_active_rounds has not run.
NotFetched == [done |-> FALSE, raised |-> FALSE, rounds |-> <<>>]

\* _compute_drop returned None.
NoDrop == [num |-> NONE, den |-> 1]

\* No tick of the feed has made a Leg-2 order.
NoHit == [outcome |-> "None", index |-> 0, price |-> 0]

\* No replay is going on.
NoReplay == [run |-> 0, start |-> "none", feed0 |-> << <<>>, <<>> >>,
             feed |-> << <<>>, <<>> >>, order |-> <<>>, order1 |-> <<>>,
             first |-> <<>>, hit |-> NoHit, hit1 |-> NoHit]

VARIABLES
    \* Strategy fields
    state, enabled, current_round,
    shares, hedge_sum, move_threshold, window_minutes,
    price_history,
    leg1_outcome, leg1_token, leg1_entry_price, leg1_shares, leg2_token,
    round_started_at,
    total_profit, total_cost, trade_history, open_positions,
    \* self._lock: whether it is held, and the ticks waiting to acquire it
    \* (asyncio.Lock wakes its waiters first-in first-out)
    locked, waiters,
    \* the trader.buy_market calls that have been made and not yet returned
    calls,
    \* market_poll_loop
    poll_pc, current_round_id, poll_nearest,
    \* environment
    now,
    \* history variables, read by the properties only: the ticks that got
    \* past the early return; the latest thing that happened to the engine
    \* (a command, an attach, a handled tick, an order made, an order's
    \* result); whether a Leg-1 order has succeeded for the attached round
    \* since the last attach_round, disable() and completed Trade; whether
    \* the observation window of the attached round has been found expired;
    \* whether an order has failed since the last attach_round, disable()
    \* and successful order
    n_ticks, last, leg1_ok, expired, after_fail,
    \* the replay of one feed in two orders (SpecReplay); NoReplay elsewhere
    replay,
    \* history: the round ids attach_round has been invoked with, in order
    \* (SpecPoll); empty elsewhere
    attached,
    \* ClobWebSocket (SpecFeed): _running, the state of self._ws, the
    \* _reconnect_count, the _subscribed_tokens, where _run_loop stands, the
    \* configured ws_max_reconnects and the delay of the latest backoff
    running, ws_conn, reconnect_count, subscribed_tokens, ws_pc, ws_max_reconnects,
    delay,
    \* history of the feed: the connection attempts that failed in a row; the
    \* backoff waits begun since the last successful connection; the assets
    \* the open connection has been told to deliver; what the subscribe
    \* message sent on connecting listed; whether an inbound message has been
    \* processed on the open connection
    fails, streak, server_assets, resub, processed,
    \* MarketFinder (SpecFinder): the pages the listing endpoint answers
    \* with, and what fetch_active_rounds made of them
    listing, fetched,
    \* one token's price history taken alone (SpecHistory): the deque
    \* _record_price keeps for it, and what _compute_drop returned after the
    \* latest insert
    deque, computed_drop,
    \* history: the number of Trades in trade_history when attach_round was
    \* last invoked (SpecPoll, SpecRevisit); 0 elsewhere
    trades_at_attach,
    \* the poll loop's subscriptions (SpecSwitch): the local
    \* subscribed_tokens of market_poll_loop, and (history) the tokens the
    \* feed has invoked its price callback with, in order
    poll_subscribed_tokens, callbacks

strategyVars == <<state, enabled, current_round, shares, hedge_sum, move_threshold,
                  window_minutes, price_history, leg1_outcome, leg1_token,
                  leg1_entry_price, leg1_shares, leg2_token, round_started_at,
                  total_profit, total_cost, trade_history, open_positions>>
legVars == <<leg1_outcome, leg1_token, leg1_entry_price, leg1_shares, leg2_token>>
pnlVars == <<total_profit, total_cost, trade_history, open_positions>>
cfgVars == <<shares, hedge_sum, move_threshold, window_minutes>>
pollVars == <<poll_pc, current_round_id, poll_nearest>>
lockVars == <<locked, waiters, calls>>
histVars == <<n_ticks, last, leg1_ok, expired, after_fail>>
engineVars == <<strategyVars, lockVars, pollVars, now, histVars>>
feedVars == <<running, ws_conn, reconnect_count, subscribed_tokens, ws_pc,
              ws_max_reconnects, delay, fails, streak, server_assets, resub,
              processed>>
finderVars == <<listing, fetched>>
dequeVars == <<deque, computed_drop>>
switchVars == <<poll_subscribed_tokens, callbacks>>
\* What the engine's and the poll loop's steps leave alone.
auxVars == <<replay, attached, trades_at_attach, feedVars, finderVars, dequeVars, switchVars>>
vars == <<engineVars, auxVars>>

\* ClobWebSocket.__init__, with config.ws_max_reconnects = m.
FeedConstructed(m) ==
    /\ running = FALSE
    /\ ws_conn = "none"
    /\ reconnect_count = 0
    /\ subscribed_tokens = {}
    /\ ws_pc = "init"
    /\ ws_max_reconnects = m
    /\ delay = NONE
    /\ fails = 0
    /\ streak = 0
    /\ server_assets = {}
    /\ resub = NotSent
    /\ processed = FALSE

\* MarketFinder.__init__: nothing fetched yet.
FinderConstructed ==
    /\ listing = <<>>
    /\ fetched = NotFetched

\* No tick of the token has been recorded: "token_id not in
\* self._price_history", and _compute_drop has not run.
DequeConstructed ==
    /\ deque = <<>>
    /\ computed_drop = NoDrop

\* The locals of market_poll_loop hold no token, and the callback has not
\* been invoked.
SwitchConstructed ==
    /\ poll_subscribed_tokens = {}
    /\ callbacks = <<>>

\* ------------------------------------------------------------------ Init
\* Strategy.__init__, the locals of market_poll_loop and the clock.
EngineConstructed ==
    /\ state = "IDLE"
    /\ enabled = FALSE
    /\ current_round = NoRound
    /\ shares = DefaultShares
    /\ hedge_sum = DefaultHedgeSum
    /\ move_threshold = DefaultMoveThreshold
    /\ window_minutes = DefaultWindowMinutes
    /\ price_history = [t \in TokenIds |-> <<>>]
    /\ leg1_outcome = "None"
    /\ leg1_token = NoToken
    /\ leg1_entry_price = NONE
    /\ leg1_shares = NONE
    /\ leg2_token = NoToken
    /\ round_started_at = NONE
    /\ total_profit = 0
    /\ total_cost = 0
    /\ trade_history = <<>>
    /\ open_positions = <<>>
    /\ locked = FALSE
    /\ waiters = <<>>
    /\ calls = <<>>
    /\ poll_pc = "sleep"
    /\ current_round_id = 0
    /\ poll_nearest = 0
    /\ now = 0
    /\ n_ticks = 0
    /\ last = "init"
    /\ leg1_ok = FALSE
    /\ expired = FALSE
    /\ after_fail = FALSE
    /\ replay = NoReplay
    /\ attached = <<>>
    /\ trades_at_attach = 0

Init ==
    /\ EngineConstructed
    /\ FeedConstructed(DefaultMaxReconnects)
    /\ FinderConstructed
    /\ DequeConstructed
    /\ SwitchConstructed

\* ------------------------------------------------------- pure functions
Last(q) == q[Len(q)]

\* _record_price without its while loop: nothing is ever dropped.
TrimNothing(q, cutoff) == q
\* The while loop of _record_price: drop points from the left while the
\* leftmost one is older than the cutoff.
RECURSIVE TrimLeft(_, _)
TrimLeft(q, cutoff) ==
    IF q # <<>> /\ q[1].ts < cutoff THEN TrimLeft(Tail(q), cutoff) ELSE q

\* _record_price, on one token's deque.
RecordPoint(q, price, ts) ==
    TrimLeft(Append(q, PricePoint(price, ts)), ts - (drop_window_sec + TrimBufferSec))

\* _record_price, on the whole dict.
RecordPrice(ph, token_id, price, ts) ==
    [ph EXCEPT ![token_id] = RecordPoint(ph[token_id], price, ts)]

\* The leftmost retained point, whether or not it lies in the drop window.
OldestRetained(q, cutoff) == q[1]
\* The first point of q (left to right) with ts >= cutoff; q's last point
\* always qualifies when the cutoff is taken from it.
RECURSIVE OldestWithin(_, _)
OldestWithin(q, cutoff) ==
    IF q[1].ts >= cutoff THEN q[1] ELSE OldestWithin(Tail(q), cutoff)

\* _compute_drop.  The result None is NoDrop; a drop is the fraction
\* num / den (den > 0), already clamped at 0.
ComputeDrop(q) ==
    IF Len(q) < 2 THEN NoDrop
    ELSE LET cutoff == Last(q).ts - drop_window_sec
             oldest_price == OldestWithin(q, cutoff).price
             current_price == Last(q).price
         IN  IF oldest_price = 0 THEN NoDrop
             ELSE IF oldest_price - current_price > 0
                  THEN [num |-> oldest_price - current_price, den |-> oldest_price]
                  ELSE [num |-> 0, den |-> oldest_price]

\* Prices, thresholds and sums are floats in the code, hundredths here.
\* A comparison of floats differs from the comparison of the exact values
\* only where the exact values are equal: there the rounding of the
\* arithmetic decides.  The three tables below hold those outcomes of
\* IEEE-754 double arithmetic (round to nearest, ties to even) that go
\* against the exact comparison, for prices and sums of 0.00 to 1.00 and
\* windows of up to 10 minutes.

\* <<oldest, current>>: "(oldest_price - current_price) / oldest_price" of
\* _compute_drop is exactly a whole number of hundredths, and the float
\* quotient is below the float of that number; e.g. (0.6 - 0.51) / 0.6 =
\* 0.14999999999999997 < 0.15.
DropRoundsBelow ==
    { <<5, 1>>, <<10, 2>>, <<20, 4>>, <<25, 8>>, <<25, 14>>, <<25, 17>>, <<25, 20>>, <<25,
      23>>, <<30, 27>>, <<35, 7>>, <<35, 21>>, <<35, 28>>, <<36, 27>>, <<40, 8>>, <<44,
      33>>, <<45, 9>>, <<45, 27>>, <<50, 16>>, <<50, 17>>, <<50, 27>>, <<50, 28>>, <<50,
      33>>, <<50, 34>>, <<50, 39>>, <<50, 40>>, <<50, 45>>, <<50, 46>>, <<60, 27>>, <<60,
      33>>, <<60, 45>>, <<60, 51>>, <<60, 54>>, <<70, 7>>, <<70, 14>>, <<70, 42>>, <<70,
      56>>, <<70, 63>>, <<72, 54>>, <<75, 6>>, <<75, 15>>, <<75, 33>>, <<75, 45>>, <<75,
      54>>, <<75, 66>>, <<80, 16>>, <<84, 63>>, <<85, 17>>, <<85, 51>>, <<85, 68>>, <<88,
      66>>, <<90, 18>>, <<90, 54>>, <<90, 81>>, <<95, 76>>, <<100, 7>>, <<100, 32>>,
      <<100, 33>>, <<100, 34>>, <<100, 54>>, <<100, 55>>, <<100, 56>>, <<100, 66>>, <<100,
      67>>, <<100, 68>>, <<100, 77>>, <<100, 78>>, <<100, 79>>, <<100, 80>>, <<100, 81>>,
      <<100, 89>>, <<100, 90>>, <<100, 91>>, <<100, 92>>, <<100, 93>> }

\* "drop >= self.move_threshold" of _handle_watching, threshold in
\* hundredths; drop.den is the oldest price and drop.den - drop.num the
\* current one (the clamped drop of 0 is 0.0 whatever the prices).
DropSignal(drop, threshold) ==
    /\ drop # NoDrop
    /\ \/ drop.num * 100 > threshold * drop.den
       \/ /\ drop.num * 100 = threshold * drop.den
          /\ drop.num = 0 \/ <<drop.den, drop.den - drop.num>> \notin DropRoundsBelow

\* The for loop of _handle_watching: the first of (up_token, "UP"),
\* (down_token, "DOWN") whose drop meets the threshold, or NoToken.
SignalToken(round, ph, threshold) ==
    IF DropSignal(ComputeDrop(ph[round.up_token.token_id]), threshold)
    THEN round.up_token
    ELSE IF DropSignal(ComputeDrop(ph[round.down_token.token_id]), threshold)
         THEN round.down_token
         ELSE NoToken

\* The window check left out.
WindowExpiredNever(started_at, clock, minutes) == FALSE
\* The values of window_minutes, in twentieths of a minute, for which the
\* float product "self.window_minutes * 60" is below the exact number of
\* seconds; e.g. 2.05 * 60 = 122.99999999999999.
WindowRoundsBelow == {41, 82, 164, 169}

\* "elapsed > window_sec" of _handle_watching; the readings of the clock are
\* whole seconds.
WindowExpired(started_at, clock, minutes) ==
    \/ clock - started_at > minutes * SecPerWindowUnit
    \/ /\ clock - started_at = minutes * SecPerWindowUnit
       /\ minutes \in WindowRoundsBelow

\* The guards of _handle_leg1_filled.  Python's "not x" is true of None and
\* of 0.0 alike.
Leg1FieldsMissing(l2tok, entry) == l2tok = NoToken \/ entry = NONE \/ entry = 0

\* The hedge check left out.
HedgeConditionAlways(entry, opposite_ask, hsum) == TRUE
\* <<a, b>> with a <= b: the float sum "self._leg1_entry_price +
\* opposite_ask" of the prices a and b is above the float of their exact
\* sum; e.g. 0.4 + 0.55 = 0.9500000000000001 > 0.95.
SumRoundsAbove ==
    { <<1, 5>>, <<1, 14>>, <<1, 17>>, <<1, 20>>, <<1, 23>>, <<1, 28>>, <<1, 34>>, <<1,
      40>>, <<1, 46>>, <<1, 56>>, <<1, 68>>, <<1, 81>>, <<1, 93>>, <<2, 7>>, <<2, 10>>,
      <<2, 27>>, <<2, 28>>, <<2, 33>>, <<2, 34>>, <<2, 39>>, <<2, 40>>, <<2, 45>>, <<2,
      46>>, <<2, 55>>, <<2, 56>>, <<2, 67>>, <<2, 68>>, <<2, 80>>, <<2, 81>>, <<2, 92>>,
      <<2, 93>>, <<3, 26>>, <<3, 27>>, <<3, 28>>, <<3, 38>>, <<3, 39>>, <<3, 40>>, <<3,
      54>>, <<3, 55>>, <<3, 56>>, <<3, 66>>, <<3, 67>>, <<3, 68>>, <<3, 79>>, <<3, 80>>,
      <<3, 81>>, <<3, 91>>, <<3, 92>>, <<3, 93>>, <<4, 7>>, <<4, 14>>, <<4, 17>>, <<4,
      20>>, <<4, 53>>, <<4, 54>>, <<4, 55>>, <<4, 56>>, <<4, 65>>, <<4, 66>>, <<4, 67>>,
      <<4, 68>>, <<4, 78>>, <<4, 79>>, <<4, 80>>, <<4, 81>>, <<4, 90>>, <<4, 91>>, <<4,
      92>>, <<4, 93>>, <<5, 7>>, <<5, 10>>, <<5, 16>>, <<5, 17>>, <<5, 52>>, <<5, 53>>,
      <<5, 54>>, <<5, 55>>, <<5, 56>>, <<5, 64>>, <<5, 65>>, <<5, 66>>, <<5, 67>>, <<5,
      68>>, <<5, 77>>, <<5, 78>>, <<5, 79>>, <<5, 80>>, <<5, 81>>, <<5, 89>>, <<5, 90>>,
      <<5, 91>>, <<5, 92>>, <<5, 93>>, <<6, 23>>, <<6, 51>>, <<6, 52>>, <<6, 53>>, <<6,
      54>>, <<6, 55>>, <<6, 56>>, <<6, 76>>, <<6, 77>>, <<6, 78>>, <<6, 79>>, <<6, 80>>,
      <<6, 81>>, <<7, 8>>, <<7, 14>>, <<7, 17>>, <<7, 22>>, <<7, 23>>, <<7, 28>>, <<7,
      34>>, <<7, 40>>, <<7, 50>>, <<7, 51>>, <<7, 52>>, <<7, 53>>, <<7, 54>>, <<7, 55>>,
      <<7, 56>>, <<7, 75>>, <<7, 76>>, <<7, 77>>, <<7, 78>>, <<7, 79>>, <<7, 80>>, <<7,
      81>>, <<8, 13>>, <<8, 14>>, <<8, 27>>, <<8, 28>>, <<8, 33>>, <<8, 34>>, <<8, 39>>,
      <<8, 40>>, <<9, 20>>, <<9, 32>>, <<9, 33>>, <<9, 34>>, <<10, 11>>, <<10, 14>>, <<10,
      19>>, <<10, 20>>, <<10, 31>>, <<10, 32>>, <<10, 33>>, <<10, 34>>, <<11, 46>>, <<12,
      17>>, <<12, 45>>, <<12, 46>>, <<13, 16>>, <<13, 17>>, <<13, 28>>, <<13, 34>>, <<13,
      44>>, <<13, 45>>, <<13, 46>>, <<13, 56>>, <<13, 81>>, <<14, 15>>, <<14, 16>>, <<14,
      17>>, <<14, 27>>, <<14, 28>>, <<14, 33>>, <<14, 34>>, <<14, 43>>, <<14, 44>>, <<14,
      45>>, <<14, 46>>, <<14, 55>>, <<14, 56>>, <<14, 68>>, <<14, 80>>, <<14, 81>>, <<15,
      26>>, <<15, 27>>, <<15, 28>>, <<15, 54>>, <<15, 55>>, <<15, 56>>, <<15, 67>>, <<15,
      68>>, <<15, 79>>, <<15, 80>>, <<15, 81>>, <<16, 25>>, <<16, 26>>, <<16, 27>>, <<16,
      28>>, <<16, 53>>, <<16, 54>>, <<16, 55>>, <<16, 56>>, <<16, 66>>, <<16, 67>>, <<16,
      68>>, <<16, 78>>, <<16, 79>>, <<16, 80>>, <<16, 81>>, <<17, 24>>, <<17, 25>>, <<17,
      26>>, <<17, 27>>, <<17, 28>>, <<17, 40>>, <<17, 52>>, <<17, 53>>, <<17, 54>>, <<17,
      55>>, <<17, 56>>, <<17, 65>>, <<17, 66>>, <<17, 67>>, <<17, 68>>, <<17, 77>>, <<17,
      78>>, <<17, 79>>, <<17, 80>>, <<17, 81>>, <<18, 23>>, <<18, 39>>, <<18, 40>>, <<18,
      64>>, <<18, 65>>, <<18, 66>>, <<18, 67>>, <<18, 68>>, <<19, 22>>, <<19, 23>>, <<19,
      28>>, <<19, 38>>, <<19, 39>>, <<19, 40>>, <<19, 63>>, <<19, 64>>, <<19, 65>>, <<19,
      66>>, <<19, 67>>, <<19, 68>>, <<20, 21>>, <<20, 22>>, <<20, 23>>, <<20, 27>>, <<20,
      28>>, <<20, 37>>, <<20, 38>>, <<20, 39>>, <<20, 40>>, <<20, 62>>, <<20, 63>>, <<20,
      64>>, <<20, 65>>, <<20, 66>>, <<20, 67>>, <<20, 68>>, <<23, 34>>, <<23, 46>>, <<24,
      33>>, <<24, 34>>, <<25, 32>>, <<25, 33>>, <<25, 34>>, <<26, 31>>, <<26, 32>>, <<26,
      33>>, <<26, 34>>, <<26, 56>>, <<26, 68>>, <<27, 30>>, <<27, 31>>, <<27, 32>>, <<27,
      33>>, <<27, 34>>, <<27, 55>>, <<27, 56>>, <<27, 67>>, <<27, 68>>, <<28, 29>>, <<28,
      30>>, <<28, 31>>, <<28, 32>>, <<28, 33>>, <<28, 34>>, <<28, 54>>, <<28, 55>>, <<28,
      56>>, <<28, 66>>, <<28, 67>>, <<28, 68>>, <<29, 53>>, <<29, 54>>, <<29, 55>>, <<29,
      56>>, <<30, 52>>, <<30, 53>>, <<30, 54>>, <<30, 55>>, <<30, 56>>, <<31, 51>>, <<31,
      52>>, <<31, 53>>, <<31, 54>>, <<31, 55>>, <<31, 56>>, <<32, 50>>, <<32, 51>>, <<32,
      52>>, <<32, 53>>, <<32, 54>>, <<32, 55>>, <<32, 56>>, <<33, 49>>, <<33, 50>>, <<33,
      51>>, <<33, 52>>, <<33, 53>>, <<33, 54>>, <<33, 55>>, <<33, 56>>, <<34, 48>>, <<34,
      49>>, <<34, 50>>, <<34, 51>>, <<34, 52>>, <<34, 53>>, <<34, 54>>, <<34, 55>>, <<34,
      56>>, <<36, 46>>, <<37, 45>>, <<37, 46>>, <<38, 44>>, <<38, 45>>, <<38, 46>>, <<38,
      56>>, <<39, 43>>, <<39, 44>>, <<39, 45>>, <<39, 46>>, <<39, 55>>, <<39, 56>>, <<40,
      42>>, <<40, 43>>, <<40, 44>>, <<40, 45>>, <<40, 46>>, <<40, 54>>, <<40, 55>>, <<40,
      56>> }

\* "combined <= self.hedge_sum" of _handle_leg1_filled.
HedgeConditionMet(entry, opposite_ask, hsum) ==
    \/ entry + opposite_ask < hsum
    \/ /\ entry + opposite_ask = hsum
       /\ (IF entry <= opposite_ask THEN <<entry, opposite_ask>>
                                    ELSE <<opposite_ask, entry>>) \notin SumRoundsAbove

\* The round's token of `outcome` itself.
SameSideToken(round, outcome) ==
    IF outcome = "UP" THEN round.up_token ELSE round.down_token
\* The round's token opposite to `outcome` (the if/else of _trigger_leg1).
OppositeToken(round, outcome) ==
    IF outcome = "UP" THEN round.down_token ELSE round.up_token

\* 'outcome = "DOWN" if self._leg1_outcome == "UP" else "UP"' of _trigger_leg2.
Leg2Outcome(l1outcome) == IF l1outcome = "UP" THEN "DOWN" ELSE "UP"

Position(outcome, token_id, price, sh) ==
    [leg |-> 1, outcome |-> outcome, token_id |-> token_id, price |-> price,
     shares |-> sh]

RemoveAt(q, i) == SubSeq(q, 1, i - 1) \o SubSeq(q, i + 1, Len(q))

\* "[p for p in self.open_positions if p["leg"] != 1]"
RECURSIVE NotLeg1(_)
NotLeg1(q) ==
    IF q = <<>> THEN <<>>
    ELSE IF q[1].leg # 1 THEN <<q[1]>> \o NotLeg1(Tail(q)) ELSE NotLeg1(Tail(q))

\* ---------------------------------------------------------------- Trader
\* TraderStub.buy_market fills at the ceiling: filled_price = max_price and
\* filled_shares = shares.  OrderResult.success is an input of the model.
FilledPrice(max_price) == max_price
FilledShares(sh) == sh

\* ------------------------------------------------------- Strategy methods
\* _reset_round_state
ResetRoundState ==
    /\ leg1_outcome' = "None"
    /\ leg1_token' = NoToken
    /\ leg1_entry_price' = NONE
    /\ leg1_shares' = NONE
    /\ leg2_token' = NoToken
    /\ round_started_at' = NONE
    /\ price_history' = [t \in TokenIds |-> <<>>]

\* _reset_state without "self.current_round = None".
ResetStateKeepsRound ==
    /\ ResetRoundState
    /\ state' = "IDLE"
    /\ UNCHANGED current_round
\* _reset_state
ResetState ==
    /\ ResetRoundState
    /\ state' = "IDLE"
    /\ current_round' = NoRound

\* configure; handle_auto_on always passes all four values.
StrategyConfigure(c) ==
    /\ shares' = c.shares
    /\ hedge_sum' = c.hedge_sum
    /\ move_threshold' = c.move_threshold
    /\ window_minutes' = c.window_minutes

\* attach_round
AttachRound(round) ==
    /\ current_round' = round
    /\ price_history' = [t \in TokenIds |-> <<>>]
    /\ round_started_at' = now
    /\ state' = "WATCHING"
    /\ UNCHANGED <<enabled, cfgVars, legVars, pnlVars>>

\* A handler that returns without touching the engine; the lock it took on
\* entry is released on the way out.
Returns ==
    /\ UNCHANGED <<state, calls>>
    /\ locked' = FALSE

\* _trigger_leg1 up to its await: the optimistic state change and the call.
TriggerLeg1(token, outcome) ==
    /\ state' = "LEG1_FILLED"
    /\ calls' = Append(calls, BuyCall(1, token.token_id, outcome, shares, token.price))
    /\ locked' = TRUE

\* _trigger_leg2 up to its await.
TriggerLeg2(opposite_ask) ==
    /\ calls' = Append(calls, BuyCall(2, leg2_token.token_id, Leg2Outcome(leg1_outcome),
                                      shares, opposite_ask))
    /\ locked' = TRUE
    /\ UNCHANGED state

\* "time.monotonic() - self._round_started_at" of _handle_watching raises
\* TypeError on None.
WatchingRaises == round_started_at = NONE

\* _handle_watching, ph being the price history after this tick's insert
\* and clock the reading of time.monotonic() it makes.
HandleWatching(ph, clock) ==
    IF current_round = NoRound THEN Returns
    ELSE IF WatchingRaises
    THEN Returns
    ELSE IF WindowExpired(round_started_at, clock, window_minutes)
    THEN /\ state' = "IDLE"
         /\ UNCHANGED calls
         /\ locked' = FALSE
    ELSE LET token == SignalToken(current_round, ph, move_threshold)
         IN  IF token = NoToken THEN Returns
             ELSE TriggerLeg1(token, token.outcome)

\* Ticks of either token taken for the opposite side's ask.
IsOppositeTickAny(token_id, l2tok) == TRUE
\* "if token_id != self._leg2_token.token_id: return" of _handle_leg1_filled.
IsOppositeTick(token_id, l2tok) == token_id = l2tok.token_id

\* _handle_leg1_filled
HandleLeg1Filled(token_id, price) ==
    IF Leg1FieldsMissing(leg2_token, leg1_entry_price) THEN Returns
    ELSE IF ~IsOppositeTick(token_id, leg2_token) THEN Returns
    ELSE IF HedgeConditionMet(leg1_entry_price, price, hedge_sum)
         THEN TriggerLeg2(price)
         ELSE Returns

\* Which handler on_price_update dispatches to in a state.
Dispatch(st) ==
    IF st = "WATCHING" THEN "watching"
    ELSE IF st = "LEG1_FILLED" THEN "leg1_filled" ELSE "none"

\* The body of on_price_update under the lock, up to the first await of
\* trader.buy_market (or to its end when no order is made), for a tick
\* stamped ts and handled when the clock reads `clock`.
Process(token_id, price, ts, clock) ==
    LET ph == RecordPrice(price_history, token_id, price, ts)
    IN  /\ price_history' = ph
        /\ UNCHANGED <<enabled, current_round, cfgVars, legVars, round_started_at,
                       pnlVars>>
        /\ CASE Dispatch(state) = "watching" -> HandleWatching(ph, clock)
             [] Dispatch(state) = "leg1_filled" -> HandleLeg1Filled(token_id, price)
             [] OTHER -> Returns

\* on_price_update without its early return.
EarlyReturnNever(en, st) == FALSE
\* The early return of on_price_update, evaluated when the tick arrives.
EarlyReturn(en, st) == ~en \/ st = "IDLE"

\* on_price_update without the lock.
CanAcquireAlways(lk, ws) == TRUE
\* asyncio.Lock.acquire takes the lock at once when it is free and nobody
\* waits for it; a woken waiter takes it when it is free.
CanAcquire(lk, ws) == ~lk /\ ws = <<>>
CanWake(lk) == ~lk

\* "if not result.success" of _trigger_leg1.
Leg1Failed(success) == ~success
\* The result's success flag ignored.
Leg2FailedNever(success) == FALSE
\* "if not result.success" of _trigger_leg2.
Leg2Failed(success) == ~success
\* Without the revert the state stays at the optimistic LEG1_FILLED.
Leg1FailureStateKept == "LEG1_FILLED"
\* The state _trigger_leg1 sets when the order failed.
Leg1FailureState == "WATCHING"

\* "round_.down_token" / "round_.up_token" of _trigger_leg1 raises
\* AttributeError when self.current_round is None.
Leg1Raises == current_round = NoRound

\* _trigger_leg1 after its await.
Leg1Returned(c, success) ==
    IF Leg1Failed(success)
    THEN /\ state' = Leg1FailureState
         /\ UNCHANGED <<enabled, current_round, cfgVars, price_history, legVars,
                        round_started_at, pnlVars>>
    ELSE /\ leg1_outcome' = c.outcome
         /\ leg1_token' = [token_id |-> c.token_id, outcome |-> c.outcome,
                           price |-> c.max_price]
         /\ leg1_entry_price' = FilledPrice(c.max_price)
         /\ leg1_shares' = FilledShares(c.shares)
         /\ UNCHANGED <<state, enabled, current_round, cfgVars, price_history,
                        round_started_at, total_profit, total_cost, trade_history>>
         /\ IF Leg1Raises
            THEN UNCHANGED <<leg2_token, open_positions>>
            ELSE /\ leg2_token' = OppositeToken(current_round, c.outcome)
                 /\ open_positions' =
                        Append(open_positions,
                               Position(c.outcome, c.token_id, FilledPrice(c.max_price),
                                        FilledShares(c.shares)))

\* Both legs costed at the Leg-1 share count.
CombinedCostOneSize(l1price, l1shares, l2price, l2shares) ==
    (l1price + l2price) * l1shares
\* "combined_cost = ..." of _trigger_leg2.
CombinedCost(l1price, l1shares, l2price, l2shares) ==
    (l1price * l1shares) + (l2price * l2shares)
Payout(l1shares) == l1shares * PayoutPerShare
Profit(payout, combined_cost) == payout - combined_cost

\* The Trade built by _trigger_leg2 (its wall-clock timestamp left out).
Trade(c) ==
    LET cost == CombinedCost(leg1_entry_price, leg1_shares,
                             FilledPrice(c.max_price), FilledShares(c.shares))
    IN  [round_id |-> current_round.condition_id,
         leg1_outcome |-> leg1_outcome,
         leg1_token_id |-> leg1_token.token_id,
         leg1_price |-> leg1_entry_price,
         leg1_shares |-> leg1_shares,
         leg2_outcome |-> c.outcome,
         leg2_token_id |-> c.token_id,
         leg2_price |-> FilledPrice(c.max_price),
         leg2_shares |-> FilledShares(c.shares),
         combined_cost |-> cost,
         expected_payout |-> Payout(leg1_shares),
         profit |-> Profit(Payout(leg1_shares), cost)]

\* "self.state = State.RESET; self._reset_round_state()" of _trigger_leg2.
FinishRound ==
    /\ state' = "RESET"
    /\ ResetRoundState

\* "self._leg1_entry_price * self._leg1_shares" of _trigger_leg2 raises
\* TypeError on None (and the Trade's arguments AttributeError on a None
\* round or token) before anything is recorded.
Leg2Raises ==
    \/ leg1_entry_price = NONE \/ leg1_shares = NONE
    \/ current_round = NoRound \/ leg1_token = NoToken

\* _trigger_leg2 after its await.
Leg2Returned(c, success) ==
    IF Leg2Failed(success)
    THEN UNCHANGED strategyVars
    ELSE IF Leg2Raises
    THEN UNCHANGED strategyVars
    ELSE LET trade == Trade(c)
         IN  /\ trade_history' = Append(trade_history, trade)
             /\ total_profit' = total_profit + trade.profit
             /\ total_cost' = total_cost + trade.combined_cost
             /\ open_positions' = NotLeg1(open_positions)
             /\ UNCHANGED <<enabled, current_round, cfgVars>>
             /\ IF trade.combined_cost = 0
                THEN \* Trade.summary divides by combined_cost: ZeroDivisionError
                     UNCHANGED <<state, price_history, legVars, round_started_at>>
                ELSE FinishRound

\* ---------------------------------------------------------------- actions
\* The position of market_poll_loop once "quit" has cancelled its task in
\* the await pc.
CancelledAt(pc) ==
    CASE pc = "sleep" -> "cancelled in sleep"
      [] pc = "fetch" -> "cancelled in fetch"
      [] pc = "unsubscribe" -> "cancelled in unsubscribe"
      [] pc = "subscribe" -> "cancelled in subscribe"

\* "quit" has run: cli_loop is left and every other task is cancelled.
Cancelled ==
    poll_pc \in {CancelledAt(pc) : pc \in {"sleep", "fetch", "unsubscribe", "subscribe"}}

\* The await market_poll_loop is suspended in, or was cancelled in.
PollAwait ==
    IF Cancelled
    THEN CHOOSE pc \in {"sleep", "fetch", "unsubscribe", "subscribe"} :
             poll_pc = CancelledAt(pc)
    ELSE poll_pc

\* "auto on <shares> ...": handle_auto_on = configure, then enable.
AutoOn(c) ==
    /\ ~Cancelled
    /\ StrategyConfigure(c)
    /\ enabled' = TRUE
    /\ UNCHANGED <<state, current_round, price_history, legVars, round_started_at,
                   pnlVars>>
    /\ UNCHANGED <<lockVars, pollVars, now, n_ticks, leg1_ok, expired, after_fail>>
    /\ last' = "auto_on"
    /\ UNCHANGED auxVars

\* "auto off": disable.
Disable ==
    /\ ~Cancelled
    /\ enabled' = FALSE
    /\ ResetState
    /\ UNCHANGED <<cfgVars, pnlVars>>
    /\ calls' = MarkStale(calls)
    /\ UNCHANGED <<locked, waiters, pollVars, now, n_ticks>>
    /\ leg1_ok' = FALSE
    /\ after_fail' = FALSE
    /\ UNCHANGED expired
    /\ last' = "disable"
    /\ UNCHANGED auxVars

\* "quit" ("exit", "q"): disable(), then task.cancel() on every other task,
\* then cli_loop is left.  A cancelled task is resumed with CancelledError
\* at the await it is suspended in and nowhere catches it: the task that
\* awaits buy_market inside "async with self._lock" drops the call, whose
\* result nobody takes, and releases the lock on its way out; the tasks
\* that wait for the lock leave its queue; market_poll_loop ends where it
\* sleeps or awaits.
QuitEngine ==
    /\ ~Cancelled
    /\ enabled' = FALSE
    /\ ResetState
    /\ UNCHANGED <<cfgVars, pnlVars>>
    /\ calls' = <<>>
    /\ locked' = FALSE
    /\ waiters' = <<>>
    /\ poll_pc' = CancelledAt(poll_pc)
    /\ UNCHANGED <<current_round_id, poll_nearest, now, n_ticks>>
    /\ leg1_ok' = FALSE
    /\ after_fail' = FALSE
    /\ UNCHANGED expired
    /\ last' = "quit"

Quit == QuitEngine /\ UNCHANGED auxVars

\* market_poll_loop wakes from its sleep, finds the strategy enabled and
\* awaits fetch_active_rounds.
PollFetch ==
    /\ poll_pc = "sleep"
    /\ enabled
    /\ poll_pc' = "fetch"
    /\ UNCHANGED <<strategyVars, lockVars, current_round_id, poll_nearest, now, histVars,
                   auxVars>>

\* fetch_active_rounds returned no round (or raised): back to sleep.
PollNoRounds ==
    /\ poll_pc = "fetch"
    /\ poll_pc' = "sleep"
    /\ UNCHANGED <<strategyVars, lockVars, current_round_id, poll_nearest, now, histVars,
                   auxVars>>

\* need_new_round without "State.RESET" in the tuple of states.
NeedNewRoundIdleOnly(nearest) ==
    /\ current_round_id # nearest.condition_id
    /\ (state = "IDLE" \/ current_round_id = 0)
\* "need_new_round = ..." of market_poll_loop.
NeedNewRound(nearest) ==
    /\ current_round_id # nearest.condition_id
    /\ (state \in {"IDLE", "RESET"} \/ current_round_id = 0)

\* fetch_active_rounds returned rounds, `nearest` first: stay on the
\* current round, or begin the switch to the new round.  The loop holds
\* the tokens of the round it attached last, if any ("if
\* subscribed_tokens"): it calls the feed's unsubscribe with them and
\* awaits it; holding none, it calls subscribe with the new round's tokens
\* at once and awaits that.
PollRounds(nearest) ==
    /\ poll_pc = "fetch"
    /\ IF NeedNewRound(nearest)
       THEN /\ poll_pc' = IF current_round_id # 0 THEN "unsubscribe" ELSE "subscribe"
            /\ poll_nearest' = nearest.condition_id
       ELSE /\ poll_pc' = "sleep"
            /\ UNCHANGED poll_nearest
    /\ UNCHANGED <<strategyVars, lockVars, current_round_id, now, histVars, auxVars>>

\* "await ws.unsubscribe(...)" returns: "subscribed_tokens.clear()", then
\* subscribe is called with the new round's tokens and awaited.
PollUnsubscribed ==
    /\ poll_pc = "unsubscribe"
    /\ poll_pc' = "subscribe"
    /\ UNCHANGED <<strategyVars, lockVars, current_round_id, poll_nearest, now,
                   histVars, auxVars>>

\* "await ws.subscribe(new_tokens)" returns: "current_round_id =
\* nearest.condition_id; strategy.attach_round(nearest)", then the sleep.
AttachDue ==
    /\ poll_pc = "subscribe"
    /\ poll_pc' = "sleep"
    /\ AttachRound(BTCRound(poll_nearest))
    /\ current_round_id' = poll_nearest
    /\ poll_nearest' = 0
    /\ leg1_ok' = FALSE
    /\ expired' = FALSE
    /\ after_fail' = FALSE
    /\ last' = "attach"
    /\ UNCHANGED <<lockVars, now, n_ticks>>

PollAttach == AttachDue /\ UNCHANGED auxVars

\* market_poll_loop is between its decision to switch rounds and its
\* attach_round call.
Switching == poll_pc \in {"unsubscribe", "subscribe"}

\* ws._subscribed_tokens: the two tokens of the round the poll loop
\* subscribed to last.  unsubscribe() removes the old round's tokens before
\* it awaits its send, and subscribe() adds the new round's before it
\* awaits its own: in between the set is empty.
Subscribed ==
    LET rid == IF PollAwait = "subscribe" THEN poll_nearest ELSE current_round_id
    IN  IF rid = 0 \/ PollAwait = "unsubscribe"
        THEN {}
        ELSE {TokId(rid, "UP"), TokId(rid, "DOWN")}

\* A reading of time.monotonic(), d seconds after the previous one.
ReadClock(d) == now' = now + d

\* What a handled tick did, for `last` and `expired`.
Handled ==
    IF Len(calls') > Len(calls)
    THEN (IF Last(calls').leg = 1 THEN "leg1_issue" ELSE "leg2_issue")
    ELSE "tick"
FoundExpired == state = "WATCHING" /\ state' = "IDLE"

\* on_price_update(token_id, price, ts), with ts a fresh reading of the
\* clock, up to the first point where it waits.
OnPriceUpdate(token_id, price, d) ==
    /\ n_ticks < MaxTicks
    /\ UNCHANGED <<pollVars, leg1_ok, after_fail>>
    /\ IF EarlyReturn(enabled, state)
       THEN UNCHANGED <<strategyVars, lockVars, now, n_ticks, last, expired>>
       ELSE /\ n_ticks' = n_ticks + 1
            /\ ReadClock(d)
            /\ IF CanAcquire(locked, waiters)
               THEN /\ Process(token_id, price, now', now')
                    /\ UNCHANGED waiters
                    /\ last' = Handled
                    /\ expired' = (expired \/ FoundExpired)
               ELSE /\ Len(waiters) < MaxWaiters
                    /\ waiters' = Append(waiters, [token_id |-> token_id,
                                                   price |-> price, ts |-> now'])
                    /\ UNCHANGED <<strategyVars, locked, calls, last, expired>>

\* The feed's receive loop, not inside a callback, takes a tick of a
\* subscribed token and awaits the callback: it takes no further message
\* until the callback has returned, so not while an order is awaited.
TickArrives(token_id, price, d) ==
    /\ ~Cancelled
    /\ ~locked
    /\ token_id \in Subscribed
    /\ OnPriceUpdate(token_id, price, d)

Tick(token_id, price, d) == TickArrives(token_id, price, d) /\ UNCHANGED auxVars

\* on_price_update is called by a second task while a first one holds the
\* lock across its await.  main() has no such task (its one caller is the
\* receive loop); the lock of on_price_update is there for one.
ConcurrentTick(token_id, price, d) ==
    /\ ~Cancelled
    /\ locked
    /\ token_id \in Subscribed
    /\ OnPriceUpdate(token_id, price, d)
    /\ UNCHANGED auxVars

\* The lock is free and its first waiter runs, d seconds after the previous
\* reading of the clock.
WaiterRuns(d) ==
    /\ waiters # <<>>
    /\ CanWake(locked)
    /\ ReadClock(d)
    /\ Process(waiters[1].token_id, waiters[1].price, waiters[1].ts, now')
    /\ waiters' = Tail(waiters)
    /\ last' = Handled
    /\ expired' = (expired \/ FoundExpired)
    /\ UNCHANGED <<pollVars, n_ticks, leg1_ok, after_fail, auxVars>>

\* An awaited buy_market call returns; its caller runs to the end of
\* on_price_update and releases the lock.
OrderResult(i, success) ==
    /\ i \in 1..Len(calls)
    /\ calls' = RemoveAt(calls, i)
    /\ locked' = FALSE
    /\ IF calls[i].leg = 1 THEN Leg1Returned(calls[i], success)
                           ELSE Leg2Returned(calls[i], success)
    /\ last' = IF calls[i].leg = 1
               THEN (IF success THEN "leg1_ok" ELSE "leg1_fail")
               ELSE (IF success THEN "leg2_ok" ELSE "leg2_fail")
    /\ leg1_ok' = IF calls[i].leg = 1
                  THEN \/ leg1_ok
                       \/ /\ success
                          /\ ~calls[i].stale
                          /\ calls[i].token_id \in {current_round.up_token.token_id,
                                                    current_round.down_token.token_id}
                  ELSE leg1_ok /\ Len(trade_history') = Len(trade_history)
    /\ after_fail' = IF success THEN FALSE ELSE ~calls[i].stale
    /\ UNCHANGED <<waiters, pollVars, now, n_ticks, expired>>

OrderReturns(i, success) == OrderResult(i, success) /\ UNCHANGED auxVars

\* Every step but the poll loop's attach_round call.
NextButAttach ==
    \/ \E c \in ConfigInputs : AutoOn(c)
    \/ Disable
    \/ PollFetch
    \/ PollNoRounds
    \/ \E rid \in RoundIds : PollRounds(BTCRound(rid))
    \/ PollUnsubscribed
    \/ Quit
    \/ \E t \in TokenIds, p \in TickPrices, d \in Delays : Tick(t, p, d)
    \/ \E i \in 1..MaxWaiters + 1, ok \in BOOLEAN : OrderReturns(i, ok)

Next == NextButAttach \/ PollAttach

\* main(): the operator's commands, the poll loop, and the engine behind
\* the one receive loop.
Spec == Init /\ [][Next]_vars

\* The engine with on_price_update called by several tasks.
NextConcurrent ==
    \/ Next
    \/ \E t \in TokenIds, p \in TickPrices, d \in Delays : ConcurrentTick(t, p, d)
    \/ \E d \in Delays : WaiterRuns(d)

SpecConcurrent == Init /\ [][NextConcurrent]_vars

\* The same program, with the round ids attach_round is called with kept
\* in `attached`.
PollAttachLogged ==
    /\ Len(attached) < MaxAttaches
    /\ AttachDue
    /\ attached' = Append(attached, poll_nearest)
    /\ trades_at_attach' = Len(trade_history)
    /\ UNCHANGED <<replay, feedVars, finderVars, dequeVars, switchVars>>

NextPoll == NextButAttach \/ PollAttachLogged

SpecPoll == Init /\ [][NextPoll]_vars

\* The share counts of the runs that start where Leg 1 has filled: those of
\* "auto on 10 ..." and of "auto on 0 ...".
Leg1FilledShares == {10, 0}

\* Leg 1 of round 2 has just filled for n shares: "auto on <n> move=0.5
\* windowMin=0.15", round 2 attached at 0, UP ticks 0.80 @ 3 and 0.40 @ 6,
\* the Leg-1 order made at the UP token's discovery price and filled.
Leg1FilledFor(n) ==
    LET round == BTCRound(2)
        token == round.up_token
    IN  /\ state = "LEG1_FILLED"
        /\ enabled = TRUE
        /\ current_round = round
        /\ shares = n
        /\ hedge_sum = DefaultHedgeSum
        /\ move_threshold = 50
        /\ window_minutes = 3
        /\ price_history = [t \in TokenIds |->
                              IF t = token.token_id
                              THEN <<PricePoint(80, 3), PricePoint(40, 6)>>
                              ELSE <<>>]
        /\ leg1_outcome = "UP"
        /\ leg1_token = token
        /\ leg1_entry_price = token.price
        /\ leg1_shares = n
        /\ leg2_token = OppositeToken(round, "UP")
        /\ round_started_at = 0
        /\ total_profit = 0
        /\ total_cost = 0
        /\ trade_history = <<>>
        /\ open_positions = <<Position("UP", token.token_id, token.price, n)>>
        /\ locked = FALSE
        /\ waiters = <<>>
        /\ calls = <<>>
        /\ poll_pc = "sleep"
        /\ current_round_id = 2
        /\ poll_nearest = 0
        /\ now = 6
        /\ last = "leg1_ok"
        /\ leg1_ok = TRUE
        /\ expired = FALSE
        /\ after_fail = FALSE

\* A run that starts where Leg 1 of round 2 has just filled, for one of the
\* share counts.  The run is left MaxTicks - 1 further ticks.
InitLeg1Filled ==
    /\ \E n \in Leg1FilledShares : Leg1FilledFor(n)
    /\ n_ticks = 1
    /\ replay = NoReplay
    /\ attached = <<2>>
    /\ trades_at_attach = 0
    /\ FeedConstructed(DefaultMaxReconnects)
    /\ FinderConstructed
    /\ DequeConstructed
    /\ SwitchConstructed

SpecLeg1Filled == InitLeg1Filled /\ [][Next]_vars

\* InitLeg1Filled is a state of Spec, but for the count of ticks.
Leg1FilledReached == \E n \in Leg1FilledShares : Leg1FilledFor(n)

\* ------------------------------------------------- what a step did
\* A trader.buy_market call is made in this step (for leg l).
OrderMade == Len(calls') = Len(calls) + 1
MadeLeg(l) == OrderMade /\ Last(calls').leg = l
\* An awaited call returns in this step; one call at most is ever awaited
\* (C2), so it is calls[1].
OrderReturned == Len(calls') < Len(calls) /\ last' # "quit"
\* A tick is handled under the lock in this step, on arrival or from the
\* lock's queue; it is the tick of HandledToken at HandledPrice.
TickHandled ==
    \/ n_ticks' = n_ticks + 1 /\ waiters' = waiters
    \/ Len(waiters') < Len(waiters) /\ last' # "quit"
HandledToken == CHOOSE t \in TokenIds : price_history'[t] # price_history[t]
HandledPrice == Last(price_history'[HandledToken]).price

\* disable() is called in this step: by "auto off", or by "quit".
DisableInvoked == last' \in {"disable", "quit"} /\ ~Cancelled
\* The handled tick finds a round attached whose observation window is open.
InsideWindow ==
    /\ current_round # NoRound
    /\ round_started_at # NONE
    /\ now' - round_started_at <= window_minutes * SecPerWindowUnit

\* The history q shows a drop of at least thr hundredths over the last
\* drop_window_sec seconds: measured from the earliest sample that is no
\* older than that, relative to that sample's price.
QualifyingDrop(q, thr) ==
    /\ Len(q) >= 2
    /\ LET newest == q[Len(q)]
           within == {i \in 1..Len(q) : q[i].ts >= newest.ts - drop_window_sec}
           first == CHOOSE i \in within : \A j \in within : i <= j
       IN  /\ q[first].price > 0
           /\ (q[first].price - newest.price) * 100 >= thr * q[first].price

\* ------------------------------------------------------------------ C1
\* C1: a Leg-2 order is made only when a Leg-1 order has succeeded for the
\* attached round since the latest attach_round, with no disable() and no
\* completed Trade since.
C1_Leg2OnlyAfterLeg1 == last = "leg2_issue" => leg1_ok
C1_Witness == last = "leg2_issue" /\ leg1_ok /\ Len(calls) = 1

\* ------------------------------------------------------------------ C2
\* C2: at most one buy_market call is awaited at any time, its caller holds
\* the lock, and while it is awaited no tick has been handled since the call
\* was made (ticks that arrive wait for the lock).
C2_OneTickInside ==
    /\ Len(calls) <= 1
    /\ calls # <<>> => locked
    /\ calls # <<>> => last \in {"leg1_issue", "leg2_issue", "auto_on", "disable", "attach"}
C2_Witness == Len(calls) = 1 /\ calls[1].leg = 1 /\ waiters # <<>>

\* ------------------------------------------------------------------ C3
\* C3: the result of an order that was awaited when disable() ran changes
\* neither the state nor a leg field, an open position, the trade history or
\* a running total.
C3_LateResultIsNoOp ==
    [][(OrderReturned /\ calls[1].stale) => UNCHANGED <<state, legVars, pnlVars>>]_vars

\* ------------------------------------------------------------------ C4
\* C4: a Trade recorded while hedge_sum < 1.0 has profit >= 0.
C4_ProfitNonNegative ==
    [][(Len(trade_history') > Len(trade_history) /\ hedge_sum' < 100)
         => Last(trade_history').profit >= 0]_vars

\* ------------------------------------------------------------------ C5
\* C5: a failed Leg-1 order puts the state back to WATCHING and records
\* nothing (no leg field, no open position); and after it, a tick handled
\* in WATCHING inside the observation window with a qualifying drop in the
\* history makes a Leg-1 order.
C5_Leg1FailureReverts ==
    [][ /\ (OrderReturned /\ last' = "leg1_fail")
            => (state' = "WATCHING" /\ UNCHANGED <<legVars, open_positions>>)
        /\ ( /\ after_fail /\ TickHandled /\ state = "WATCHING" /\ InsideWindow
             /\ \E o \in Outcomes :
                    QualifyingDrop(price_history'[TokId(current_round.condition_id, o)],
                                   move_threshold) )
            => MadeLeg(1) ]_vars
C5_Witness == last = "leg1_issue" /\ after_fail /\ open_positions = <<>>

\* ------------------------------------------------------------------ C6
\* C6: a failed Leg-2 order changes nothing of the engine (the state stays
\* LEG1_FILLED unless disable() ran meanwhile); and after it, a tick of the
\* opposite token with leg1_entry_price + price <= hedge_sum handled in
\* LEG1_FILLED makes a Leg-2 order.
C6_Leg2FailureKeepsAll ==
    [][ /\ (OrderReturned /\ last' = "leg2_fail")
            => /\ UNCHANGED strategyVars
               /\ ~calls[1].stale => state' = "LEG1_FILLED"
        /\ ( /\ after_fail /\ TickHandled /\ state = "LEG1_FILLED"
             /\ HandledToken = leg2_token.token_id
             /\ leg1_entry_price # NONE
             /\ leg1_entry_price + HandledPrice <= hedge_sum )
            => MadeLeg(2) ]_vars
C6_Witness == last = "leg2_issue" /\ after_fail /\ state = "LEG1_FILLED"

\* ------------------------------------------------------------------ C7
\* C7: in LEG1_FILLED with a Leg-1 fill recorded at an entry price in
\* [0, 1], a handled tick of the opposite token at price p makes a Leg-2
\* order if and only if leg1_entry_price + p <= hedge_sum.
C7_Leg2IffHedgeMet ==
    [][ ( /\ TickHandled /\ state = "LEG1_FILLED"
          /\ leg1_entry_price \in 0..100
          /\ leg2_token # NoToken
          /\ HandledToken = leg2_token.token_id )
        => (MadeLeg(2) <=> leg1_entry_price + HandledPrice <= hedge_sum) ]_vars

\* ------------------------------------------------------------------ C8
\* C8: the Leg-1 order's max_price is the latest tick price recorded for
\* the token it buys.
C8_Leg1CeilingIsLastTick ==
    [][ MadeLeg(1)
        => Last(calls').max_price = Last(price_history'[Last(calls').token_id]).price ]_vars

\* ------------------------------------------------------------------ C9
\* main() under "auto on 10", every parameter at its default (sum=0.95,
\* move=0.15, windowMin=2), with ticks at 0.40, 0.51, 0.55 and 0.60: a fall
\* from 0.60 to 0.51 is a drop of exactly 0.15, and 0.40 + 0.55 is exactly
\* 0.95.
BoundaryConfigs ==
    { [shares |-> DefaultShares, hedge_sum |-> DefaultHedgeSum,
       move_threshold |-> DefaultMoveThreshold,
       window_minutes |-> DefaultWindowMinutes] }
BoundaryPrices == {40, 51, 55, 60}

NextBoundary ==
    \/ \E c \in BoundaryConfigs : AutoOn(c)
    \/ Disable
    \/ PollFetch
    \/ PollNoRounds
    \/ \E rid \in RoundIds : PollRounds(BTCRound(rid))
    \/ PollUnsubscribed
    \/ PollAttach
    \/ Quit
    \/ \E t \in TokenIds, p \in BoundaryPrices, d \in Delays : Tick(t, p, d)
    \/ \E i \in 1..MaxWaiters + 1, ok \in BOOLEAN : OrderReturns(i, ok)

SpecBoundary == Init /\ [][NextBoundary]_vars

\* C9: a tick handled in WATCHING inside the observation window makes
\* exactly one Leg-1 order if a token of the round shows a qualifying drop
\* (UP first when both do) and the state leaves WATCHING in that same step;
\* it makes no order otherwise.
C9_DropTriggersLeg1 ==
    [][ (TickHandled /\ state = "WATCHING" /\ InsideWindow)
        => LET up == current_round.up_token
               down == current_round.down_token
               upDrop == QualifyingDrop(price_history'[up.token_id], move_threshold)
               downDrop == QualifyingDrop(price_history'[down.token_id], move_threshold)
           IN  IF upDrop \/ downDrop
               THEN /\ MadeLeg(1)
                    /\ Last(calls').outcome = (IF upDrop THEN "UP" ELSE "DOWN")
                    /\ Last(calls').token_id = (IF upDrop THEN up.token_id
                                                          ELSE down.token_id)
                    /\ state' # "WATCHING"
               ELSE calls' = calls ]_vars
\* ----------------------------------------------------------------- C10
\* C10: no Leg-1 order is made by a tick handled more than
\* window_minutes * 60 seconds after attach_round; such a tick handled in
\* WATCHING makes the state IDLE; and from then until the next attach_round
\* the state is IDLE and no order is made or awaited.
C10_NoLateTrigger ==
    [][ /\ MadeLeg(1) => InsideWindow
        /\ (TickHandled /\ state = "WATCHING" /\ current_round # NoRound
            /\ round_started_at # NONE /\ ~InsideWindow)
            => (state' = "IDLE" /\ calls' = calls)
        /\ expired' => (state' = "IDLE" /\ calls' = <<>>) ]_vars
\* The window has expired while the history still shows a qualifying drop.
C10_Witness ==
    /\ expired /\ state = "IDLE" /\ enabled
    /\ \E t \in TokenIds : QualifyingDrop(price_history[t], move_threshold)

\* ----------------------------------------------------------------- C11
\* Time passes with no tick delivered: the clock moves beyond the end of the
\* attached round's observation window.  Nothing of the program runs.
WindowElapses ==
    /\ state = "WATCHING"
    /\ current_round # NoRound
    /\ round_started_at # NONE
    /\ ~WindowExpired(round_started_at, now, window_minutes)
    /\ now <= MaxClock
    /\ now' = round_started_at + window_minutes * SecPerWindowUnit + 1
    /\ UNCHANGED <<strategyVars, lockVars, pollVars, histVars, auxVars>>

NextTimed == Next \/ WindowElapses

\* The program's own tasks keep running: market_poll_loop wakes, its fetch
\* returns, its unsubscribe and subscribe return, an awaited order returns.
\* Nothing is assumed of the feed or of the operator.
TasksRun ==
    /\ WF_vars(PollFetch)
    /\ WF_vars(PollNoRounds \/ \E rid \in RoundIds : PollRounds(BTCRound(rid)))
    /\ WF_vars(PollUnsubscribed)
    /\ WF_vars(PollAttach)
    /\ WF_vars(\E i \in 1..MaxWaiters + 1, ok \in BOOLEAN : OrderReturns(i, ok))

SpecTimed == Init /\ [][NextTimed]_vars /\ TasksRun

\* C11: once the engine is WATCHING and more than window_minutes * 60
\* seconds have passed since attach_round, the state eventually becomes
\* IDLE, whether or not another tick arrives.
C11_ExpiryReachesIdle ==
    ( /\ state = "WATCHING"
      /\ current_round # NoRound
      /\ round_started_at # NONE
      /\ WindowExpired(round_started_at, now, window_minutes) )
    ~> (state = "IDLE")

\* ----------------------------------------------------------------- C12
\* market_poll_loop calls attach_round in this step.
AttachInvoked == poll_pc = "subscribe" /\ poll_pc' = "sleep"

\* C12: attach_round is invoked only when the state is IDLE or RESET or no
\* round has been attached yet; never in WATCHING or LEG1_FILLED, and never
\* while a buy_market call is awaited.
C12_AttachOnlyWhenIdle ==
    [][ AttachInvoked
        => /\ state \in {"IDLE", "RESET"} \/ current_round_id = 0
           /\ state \notin {"WATCHING", "LEG1_FILLED"}
           /\ calls = <<>> ]_vars

\* ----------------------------------------------------------------- C13
\* C13: right after disable(), whatever the state before it: the state is
\* IDLE, the strategy is not enabled, no round is attached, the five leg
\* fields and the attach time are None and the price history is empty.
C13_DisableClearsAll ==
    last \in {"disable", "quit"}
    => /\ state = "IDLE"
       /\ ~enabled
       /\ current_round = NoRound
       /\ leg1_outcome = "None"
       /\ leg1_token = NoToken
       /\ leg1_entry_price = NONE
       /\ leg1_shares = NONE
       /\ leg2_token = NoToken
       /\ round_started_at = NONE
       /\ \A t \in TokenIds : price_history[t] = <<>>
\* disable() ran while a Leg-2 order was awaited, that is in LEG1_FILLED
\* with every leg field set.
C13_Witness == last = "disable" /\ Len(calls) = 1 /\ calls[1].leg = 2

\* ----------------------------------------------------------------- C14
\* C14: every Trade of the history has combined_cost = leg1_price *
\* leg1_shares + leg2_price * leg2_shares, expected_payout = leg1_shares
\* (one unit a share) and profit = expected_payout - combined_cost.
C14_TradeArithmetic ==
    \A i \in 1..Len(trade_history) :
        LET t == trade_history[i]
        IN  /\ t.combined_cost = t.leg1_price * t.leg1_shares + t.leg2_price * t.leg2_shares
            /\ t.expected_payout = t.leg1_shares * PayoutPerShare
            /\ t.profit = t.expected_payout - t.combined_cost
\* A Trade whose two legs differ in size.
C14_Witness ==
    /\ trade_history # <<>>
    /\ trade_history[1].leg1_shares # trade_history[1].leg2_shares
    /\ trade_history[1].leg2_price > 0

\* ----------------------------------------------------------------- C15
\* C15: every Trade of the history has leg1_shares = leg2_shares.
C15_EqualLegSizes ==
    \A i \in 1..Len(trade_history) :
        trade_history[i].leg1_shares = trade_history[i].leg2_shares

\* ----------------------------------------------------------------- C16
\* One feed, a sequence of UP prices and a sequence of DOWN prices of round
\* 2, is delivered twice to the same starting state of the engine, each time
\* in some order of its own; the ticks come one at a time, three seconds
\* apart, and every order fills.  The engine starts either right after
\* "auto on 10 move=0.5 windowMin=0.15" and attach_round of round 2, or where
\* Leg 1 of that round has filled on UP (Leg1FilledFor(10)).
ReplayPrices == TickPrices \cup {70}
Feeds ==
    LET seqs == UNION {[1..k -> ReplayPrices] : k \in 0..MaxTicks}
    IN  {f \in seqs \X seqs : Len(f[1]) + Len(f[2]) \in 1..MaxTicks}

StartValues(start) ==
    LET round == BTCRound(2)
        filled == start = "leg1_filled"
        token == round.up_token
    IN  [state |-> IF filled THEN "LEG1_FILLED" ELSE "WATCHING",
         enabled |-> TRUE,
         current_round |-> round,
         shares |-> 10,
         hedge_sum |-> DefaultHedgeSum,
         move_threshold |-> 50,
         window_minutes |-> 3,
         price_history |-> [t \in TokenIds |->
                              IF filled /\ t = token.token_id
                              THEN <<PricePoint(80, 3), PricePoint(40, 6)>>
                              ELSE <<>>],
         leg1_outcome |-> IF filled THEN "UP" ELSE "None",
         leg1_token |-> IF filled THEN token ELSE NoToken,
         leg1_entry_price |-> IF filled THEN token.price ELSE NONE,
         leg1_shares |-> IF filled THEN 10 ELSE NONE,
         leg2_token |-> IF filled THEN OppositeToken(round, "UP") ELSE NoToken,
         round_started_at |-> 0,
         total_profit |-> 0,
         total_cost |-> 0,
         trade_history |-> <<>>,
         open_positions |-> IF filled
                            THEN <<Position("UP", token.token_id, token.price, 10)>>
                            ELSE <<>>,
         locked |-> FALSE,
         waiters |-> <<>>,
         calls |-> <<>>,
         poll_pc |-> "sleep",
         current_round_id |-> 2,
         poll_nearest |-> 0,
         now |-> IF filled THEN 6 ELSE 0,
         n_ticks |-> 0,
         last |-> IF filled THEN "leg1_ok" ELSE "attach",
         leg1_ok |-> filled,
         expired |-> FALSE,
         after_fail |-> FALSE]

EngineIs(v) ==
    /\ state = v.state
    /\ enabled = v.enabled
    /\ current_round = v.current_round
    /\ shares = v.shares
    /\ hedge_sum = v.hedge_sum
    /\ move_threshold = v.move_threshold
    /\ window_minutes = v.window_minutes
    /\ price_history = v.price_history
    /\ leg1_outcome = v.leg1_outcome
    /\ leg1_token = v.leg1_token
    /\ leg1_entry_price = v.leg1_entry_price
    /\ leg1_shares = v.leg1_shares
    /\ leg2_token = v.leg2_token
    /\ round_started_at = v.round_started_at
    /\ total_profit = v.total_profit
    /\ total_cost = v.total_cost
    /\ trade_history = v.trade_history
    /\ open_positions = v.open_positions
    /\ locked = v.locked
    /\ waiters = v.waiters
    /\ calls = v.calls
    /\ poll_pc = v.poll_pc
    /\ current_round_id = v.current_round_id
    /\ poll_nearest = v.poll_nearest
    /\ now = v.now
    /\ n_ticks = v.n_ticks
    /\ last = v.last
    /\ leg1_ok = v.leg1_ok
    /\ expired = v.expired
    /\ after_fail = v.after_fail

EngineBecomes(v) ==
    /\ state' = v.state
    /\ enabled' = v.enabled
    /\ current_round' = v.current_round
    /\ shares' = v.shares
    /\ hedge_sum' = v.hedge_sum
    /\ move_threshold' = v.move_threshold
    /\ window_minutes' = v.window_minutes
    /\ price_history' = v.price_history
    /\ leg1_outcome' = v.leg1_outcome
    /\ leg1_token' = v.leg1_token
    /\ leg1_entry_price' = v.leg1_entry_price
    /\ leg1_shares' = v.leg1_shares
    /\ leg2_token' = v.leg2_token
    /\ round_started_at' = v.round_started_at
    /\ total_profit' = v.total_profit
    /\ total_cost' = v.total_cost
    /\ trade_history' = v.trade_history
    /\ open_positions' = v.open_positions
    /\ locked' = v.locked
    /\ waiters' = v.waiters
    /\ calls' = v.calls
    /\ poll_pc' = v.poll_pc
    /\ current_round_id' = v.current_round_id
    /\ poll_nearest' = v.poll_nearest
    /\ now' = v.now
    /\ n_ticks' = v.n_ticks
    /\ last' = v.last
    /\ leg1_ok' = v.leg1_ok
    /\ expired' = v.expired
    /\ after_fail' = v.after_fail

InitReplay ==
    \E start \in {"attached", "leg1_filled"}, f \in Feeds :
        /\ EngineIs(StartValues(start))
        /\ replay = [run |-> 1, start |-> start, feed0 |-> f, feed |-> f,
                     order |-> <<>>, order1 |-> <<>>, first |-> <<>>,
                     hit |-> NoHit, hit1 |-> NoHit]
        /\ attached = <<>>
        /\ trades_at_attach = 0
        /\ FeedConstructed(DefaultMaxReconnects)
        /\ FinderConstructed
        /\ DequeConstructed
        /\ SwitchConstructed

\* What the two deliveries are compared on: the State value, the leg fields
\* (outcomes and prices) and the recorded Trades.
Summary == <<state, leg1_outcome, leg1_entry_price, leg2_token, trade_history>>

FeedIndex(o) == IF o = "UP" THEN 1 ELSE 2

\* The feed delivers the next tick of outcome o; the previous tick's
\* on_price_update has returned.
ReplayTick(o) ==
    /\ replay.run \in {1, 2}
    /\ calls = <<>>
    /\ replay.feed[FeedIndex(o)] # <<>>
    /\ TickArrives(TokId(2, o), Head(replay.feed[FeedIndex(o)]), drop_window_sec)
    /\ replay' = [replay EXCEPT
                    !.feed[FeedIndex(o)] = Tail(@),
                    !.order = Append(@, o),
                    !.hit = IF Len(calls') > Len(calls) /\ Last(calls').leg = 2
                            THEN [outcome |-> o,
                                  index |-> Len(replay.feed0[FeedIndex(o)])
                                            - Len(replay.feed[FeedIndex(o)]) + 1,
                                  price |-> Head(replay.feed[FeedIndex(o)])]
                            ELSE @]
    /\ UNCHANGED <<attached, trades_at_attach, feedVars, finderVars, dequeVars, switchVars>>

\* The awaited order fills at its ceiling.
ReplayFill ==
    /\ replay.run \in {1, 2}
    /\ OrderResult(1, TRUE)
    /\ UNCHANGED auxVars

\* The first delivery is over: its outcome is kept and the same feed is
\* delivered to the same starting state again.
ReplayAgain ==
    /\ replay.run = 1
    /\ replay.feed = << <<>>, <<>> >>
    /\ calls = <<>>
    /\ replay' = [replay EXCEPT !.run = 2, !.feed = replay.feed0,
                                !.order = <<>>, !.order1 = replay.order,
                                !.first = Summary,
                                !.hit = NoHit, !.hit1 = replay.hit]
    /\ EngineBecomes(StartValues(replay.start))
    /\ UNCHANGED <<attached, trades_at_attach, feedVars, finderVars, dequeVars, switchVars>>

NextReplay ==
    \/ \E o \in Outcomes : ReplayTick(o)
    \/ ReplayFill
    \/ ReplayAgain

SpecReplay == InitReplay /\ [][NextReplay]_vars

ReplayDone == replay.run = 2 /\ replay.feed = << <<>>, <<>> >> /\ calls = <<>>

\* C16 as stated: started right after attach_round, or later, two orders of
\* delivery of the same UP ticks and the same DOWN ticks end in the same
\* State value, leg outcomes and prices, and recorded Trades.
C16_OrderIndependent == ReplayDone => Summary = replay.first

\* C16 amended: started in LEG1_FILLED with no order awaited, every order
\* filling, two orders of delivery of the same Leg-1-token ticks and the
\* same opposite-token ticks end in the same State value, leg outcomes and
\* prices, and recorded Trades.
C16_OrderIndependentAfterLeg1 ==
    (ReplayDone /\ replay.start = "leg1_filled") => Summary = replay.first
\* Two different orders of delivery, Leg 2 bought in both.
C16_Witness ==
    /\ ReplayDone
    /\ replay.start = "leg1_filled"
    /\ replay.order # replay.order1
    /\ trade_history # <<>>
    /\ replay.first[5] # <<>>

\* ----------------------------------------------------------------- C17
\* C17: a Trade is recorded, a running total changes or an open position
\* is removed only when a Leg-2 order returns filled, and a Leg-2 order is
\* made only by a handled tick of the opposite token at a price p with
\* leg1_entry_price + p <= hedge_sum.  So a round whose opposite ticks never
\* meet the hedge condition leaves no Trade, the totals as they were and
\* the Leg-1 position open, also past attach_round and disable().
C17_NoHedgeNoTrade ==
    [][ /\ ( \/ trade_history' # trade_history
             \/ total_profit' # total_profit
             \/ total_cost' # total_cost
             \/ Len(open_positions') < Len(open_positions) )
            => (OrderReturned /\ calls[1].leg = 2 /\ last' = "leg2_ok")
        /\ MadeLeg(2)
            => /\ TickHandled
               /\ HandledToken = leg2_token.token_id
               /\ leg1_entry_price + HandledPrice <= hedge_sum
               /\ Last(calls').max_price = HandledPrice ]_vars
\* Leg 1 has filled, the latest opposite tick has been handled and misses
\* the hedge condition: no Trade, the position open.
C17_Witness ==
    /\ state = "LEG1_FILLED"
    /\ last = "tick"
    /\ leg2_token # NoToken
    /\ price_history[leg2_token.token_id] # <<>>
    /\ leg1_entry_price + Last(price_history[leg2_token.token_id]).price > hedge_sum
    /\ Len(open_positions) = 1
    /\ trade_history = <<>>

\* ----------------------------------------------------------------- C18
RECURSIVE SumOf(_)
SumOf(q) == IF q = <<>> THEN 0 ELSE q[1] + SumOf(Tail(q))
ProfitsOf(h) == [i \in 1..Len(h) |-> h[i].profit]
CostsOf(h) == [i \in 1..Len(h) |-> h[i].combined_cost]

\* C18: the trade history only grows, by one record at the end, and only
\* when a Leg-2 order returns filled; every Leg-2 fill adds exactly one
\* record; the records already there stay as they
\* are through every step (disable(), attach_round and configure() among
\* them); and total_profit and total_cost are always the sums of the
\* recorded profits and combined costs.
C18_HistoryAppendOnly ==
    /\ [](/\ total_profit = SumOf(ProfitsOf(trade_history))
          /\ total_cost = SumOf(CostsOf(trade_history)))
    /\ [][ /\ \/ trade_history' = trade_history
              \/ /\ Len(trade_history') = Len(trade_history) + 1
                 /\ SubSeq(trade_history', 1, Len(trade_history)) = trade_history
                 /\ OrderReturned /\ calls[1].leg = 2 /\ last' = "leg2_ok"
           /\ (OrderReturned /\ last' = "leg2_ok")
               => Len(trade_history') = Len(trade_history) + 1 ]_vars

\* ----------------------------------------------------------------- C19
\* C19: no call of on_price_update raises, in any state the engine can be
\* in and for any tick: not in the handler before the order, and not when
\* the awaited order returns.
C19_NeverRaises ==
    [][ /\ ~(TickHandled /\ state = "WATCHING" /\ current_round # NoRound
             /\ WatchingRaises)
        /\ ~(OrderReturned /\ last' = "leg1_ok" /\ Leg1Raises)
        /\ ~(OrderReturned /\ last' = "leg2_ok" /\ Leg2Raises) ]_vars

\* ----------------------------------------------------------------- C20
\* The "leg": 1 entries of open_positions.
Leg1Entries == SelectSeq(open_positions, LAMBDA p : p.leg = 1)

\* C20: open_positions never holds more than one leg-1 entry, whatever
\* attach_round, ticks, order results, disable() and auto-on came before.
C20_AtMostOneLeg1Entry == Len(Leg1Entries) <= 1

\* ======================================================== the price feed
\* ClobWebSocket (src/ws_client.py) on its own.  Its callback is a
\* constructor argument; what the callback does to the engine is Tick above.
\* Times are whole seconds.

\* config.ws_max_reconnects as set before the feed is constructed: the
\* default, and a limit of two.
MaxReconnectInputs == {DefaultMaxReconnects, 2}

Min(a, b) == IF a <= b THEN a ELSE b

\* "min(self._reconnect_delay * (2 ** min(self._reconnect_count, 4)), 30)"
\* without its ceiling.
BackoffDelayUncapped(count) ==
    ws_reconnect_delay * 2 ^ Min(count, BackoffMaxExponent)

\* "min(self._reconnect_delay * (2 ** min(self._reconnect_count, 4)), 30)"
BackoffDelay(count) ==
    Min(ws_reconnect_delay * 2 ^ Min(count, BackoffMaxExponent), BackoffCeiling)

\* The token ids market_poll_loop passes to subscribe and unsubscribe: the
\* two tokens of one round.
RoundTokens(rid) == {TokId(rid, "UP"), TokId(rid, "DOWN")}

feedFrame == <<engineVars, replay, attached, trades_at_attach, finderVars, dequeVars, switchVars>>

InitFeed ==
    /\ EngineConstructed
    /\ \E m \in MaxReconnectInputs : FeedConstructed(m)
    /\ FinderConstructed
    /\ DequeConstructed
    /\ SwitchConstructed

\* The end of one pass of _run_loop's while body, after the connection
\* attempt or the connection is over: leave the loop if stop() has run,
\* else compute the delay, count the reconnect and sleep.
Backoff ==
    IF ~running
    THEN /\ ws_pc' = "stopped"
         /\ UNCHANGED <<reconnect_count, delay, streak>>
    ELSE /\ delay' = BackoffDelay(reconnect_count)
         /\ reconnect_count' = reconnect_count + 1
         /\ streak' = streak + 1
         /\ ws_pc' = "backoff"

\* start(): _running is set and _run_loop awaits its first connection.
WsStart ==
    /\ ws_pc = "init"
    /\ running' = TRUE
    /\ ws_pc' = "connecting"
    /\ UNCHANGED <<ws_conn, reconnect_count, subscribed_tokens, ws_max_reconnects,
                   delay, fails, streak, server_assets, resub, processed>>
    /\ UNCHANGED feedFrame

\* "self._ws and not self._ws.closed": a connection is up; one that
\* stop() is closing counts until its close() has returned.
Connected == ws_conn \in {"open", "closing"}

\* stop(): _running is cleared, and on an open connection close() is
\* called and awaited.  Without a connection, or on one already closed,
\* nothing more happens.
WsStop ==
    /\ running' = FALSE
    /\ ws_conn' = IF ws_conn = "open" THEN "closing" ELSE ws_conn
    /\ UNCHANGED <<reconnect_count, subscribed_tokens, ws_pc, ws_max_reconnects,
                   delay, fails, streak, server_assets, resub, processed>>
    /\ UNCHANGED feedFrame

\* "await self._ws.close()" of stop() returns: the connection is closed.
WsClosed ==
    /\ ws_conn = "closing"
    /\ ws_conn' = "closed"
    /\ UNCHANGED <<running, reconnect_count, subscribed_tokens, ws_pc,
                   ws_max_reconnects, delay, fails, streak, server_assets, resub,
                   processed>>
    /\ UNCHANGED feedFrame

\* websockets.connect succeeds: self._ws is the new connection, the count is
\* reset, and if any token is subscribed the subscribe message for the
\* whole set is built and handed to the connection, whose send goes through
\* (sent) or raises and is logged; _run_loop awaits that send, and with no
\* token subscribed it enters the receive loop at once.
WsConnected(sent) ==
    /\ ws_pc = "connecting"
    /\ ws_conn' = "open"
    /\ reconnect_count' = 0
    /\ resub' = IF subscribed_tokens # {} /\ sent
                THEN [sent |-> TRUE, assets |-> subscribed_tokens]
                ELSE NotSent
    /\ server_assets' = resub'.assets
    /\ processed' = FALSE
    /\ fails' = 0
    /\ streak' = 0
    /\ delay' = NONE
    /\ ws_pc' = IF subscribed_tokens # {} THEN "resubscribe" ELSE "receiving"
    /\ UNCHANGED <<running, subscribed_tokens, ws_max_reconnects>>
    /\ UNCHANGED feedFrame

\* "await self._send_subscribe(self._subscribed_tokens)" of _run_loop
\* returns: the receive loop starts.
WsResubscribed ==
    /\ ws_pc = "resubscribe"
    /\ ws_pc' = "receiving"
    /\ UNCHANGED <<running, ws_conn, reconnect_count, subscribed_tokens,
                   ws_max_reconnects, delay, fails, streak, server_assets, resub,
                   processed>>
    /\ UNCHANGED feedFrame

\* websockets.connect raises.
WsConnectFails ==
    /\ ws_pc = "connecting"
    /\ fails < MaxFailures
    /\ fails' = fails + 1
    /\ Backoff
    /\ UNCHANGED <<running, ws_conn, subscribed_tokens, ws_max_reconnects,
                   server_assets, resub, processed>>
    /\ UNCHANGED feedFrame

\* The receive loop, not inside a callback, gets an inbound message.  If
\* stop() has run it breaks out of the loop and of the "async with", whose
\* exit calls close() on the connection and awaits it; else it handles the
\* message.
WsMessage ==
    /\ ws_pc = "receiving"
    /\ ~locked
    /\ IF ~running
       THEN /\ ws_conn' = IF ws_conn = "open" THEN "closing" ELSE ws_conn
            /\ ws_pc' = "exiting"
            /\ UNCHANGED processed
       ELSE /\ processed' = TRUE
            /\ UNCHANGED <<ws_conn, ws_pc>>
    /\ UNCHANGED <<running, reconnect_count, subscribed_tokens, ws_max_reconnects,
                   delay, fails, streak, server_assets, resub>>
    /\ UNCHANGED feedFrame

\* The close() awaited by the exit of the "async with" returns: the
\* connection is closed.  After a break out of the receive loop the pass of
\* _run_loop ends; in a cancelled task the CancelledError, which no except
\* clause of _run_loop catches, ends the task.
WsExited ==
    /\ ws_pc = "exiting"
    /\ ws_conn' = "closed"
    /\ server_assets' = {}
    /\ resub' = NotSent
    /\ processed' = FALSE
    /\ IF Cancelled
       THEN /\ ws_pc' = "stopped"
            /\ UNCHANGED <<reconnect_count, delay, streak>>
       ELSE Backoff
    /\ UNCHANGED <<running, subscribed_tokens, ws_max_reconnects, fails>>
    /\ UNCHANGED feedFrame

\* The connection is lost, at any moment, also while a callback awaits an
\* order: from then on "self._ws.closed" holds, subscribe and unsubscribe
\* send nothing, and the server sends nothing more.
WsLost ==
    /\ ws_conn = "open"
    /\ ws_conn' = "closed"
    /\ server_assets' = {}
    /\ UNCHANGED <<running, reconnect_count, subscribed_tokens, ws_pc,
                   ws_max_reconnects, delay, fails, streak, resub, processed>>
    /\ UNCHANGED feedFrame

\* The receive loop, not inside a callback, finds the connection closed:
\* its "async for" ends or raises ConnectionClosed, and the pass of
\* _run_loop ends.
WsDrop ==
    /\ ws_pc = "receiving"
    /\ ~locked
    /\ ws_conn = "closed"
    /\ server_assets' = {}
    /\ resub' = NotSent
    /\ processed' = FALSE
    /\ Backoff
    /\ UNCHANGED <<running, ws_conn, subscribed_tokens, ws_max_reconnects, fails>>
    /\ UNCHANGED feedFrame

\* asyncio.sleep(delay) is over: "while self._running".
WsSleepDone ==
    /\ ws_pc = "backoff"
    /\ ws_pc' = IF running THEN "connecting" ELSE "stopped"
    /\ UNCHANGED <<running, ws_conn, reconnect_count, subscribed_tokens,
                   ws_max_reconnects, delay, fails, streak, server_assets, resub,
                   processed>>
    /\ UNCHANGED feedFrame

\* subscribe(token_ids) with the tokens of round rid: the new ones join the
\* set, and on an open connection a subscribe message for them is sent
\* (sent) or the send raises and is logged.
WsSubscribe(rid, sent) ==
    LET new_tokens == RoundTokens(rid) \ subscribed_tokens
    IN  /\ new_tokens # {}
        /\ subscribed_tokens' = subscribed_tokens \cup new_tokens
        /\ server_assets' = IF Connected /\ sent
                            THEN server_assets \cup new_tokens
                            ELSE server_assets
        /\ UNCHANGED <<running, ws_conn, reconnect_count, ws_pc, ws_max_reconnects,
                       delay, fails, streak, resub, processed>>
        /\ UNCHANGED feedFrame

\* unsubscribe(token_ids) with the tokens of round rid.
WsUnsubscribe(rid, sent) ==
    LET remove == RoundTokens(rid) \cap subscribed_tokens
    IN  /\ remove # {}
        /\ subscribed_tokens' = subscribed_tokens \ remove
        /\ server_assets' = IF Connected /\ sent
                            THEN server_assets \ remove
                            ELSE server_assets
        /\ UNCHANGED <<running, ws_conn, reconnect_count, ws_pc, ws_max_reconnects,
                       delay, fails, streak, resub, processed>>
        /\ UNCHANGED feedFrame

NextFeed ==
    \/ WsStart
    \/ WsStop
    \/ WsClosed
    \/ \E sent \in BOOLEAN : WsConnected(sent)
    \/ WsResubscribed
    \/ WsConnectFails
    \/ WsMessage
    \/ WsExited
    \/ WsLost
    \/ WsDrop
    \/ WsSleepDone
    \/ \E rid \in RoundIds, sent \in BOOLEAN : WsSubscribe(rid, sent)
    \/ \E rid \in RoundIds, sent \in BOOLEAN : WsUnsubscribe(rid, sent)

SpecFeed == InitFeed /\ [][NextFeed]_vars

\* ----------------------------------------------------------------- C21
\* A backoff wait is computed in this step.
WaitBegins == streak' = streak + 1

\* C21 as stated: the wait after k connection attempts have failed in a row
\* is min(base * 2^min(k, 4), 30) seconds.
C21_DelayByFailures ==
    ws_pc = "backoff" =>
        delay = Min(ws_reconnect_delay * 2 ^ Min(fails, BackoffMaxExponent),
                    BackoffCeiling)

\* C21, amended: the n-th wait begun since the last successful connection
\* (or since start() if there has been none) is min(base * 2^min(n-1, 4), 30)
\* seconds; within such a streak the waits never decrease, none exceeds
\* 30 s, and the first wait after a successful connection is the base delay.
C21_DelayByWaits ==
    /\ [](ws_pc = "backoff" =>
            /\ streak >= 1
            /\ delay = Min(ws_reconnect_delay * 2 ^ Min(streak - 1, BackoffMaxExponent),
                           BackoffCeiling)
            /\ delay <= BackoffCeiling)
    /\ [][ WaitBegins =>
             /\ delay' >= delay
             /\ streak = 0 => delay' = ws_reconnect_delay ]_vars

\* A fifth wait in a row: the ceiling applies, after a connection that had
\* succeeded.
C21_Witness ==
    /\ ws_pc = "backoff"
    /\ streak = 6
    /\ fails = 5
    /\ delay = BackoffCeiling

\* ----------------------------------------------------------------- C22
\* websockets.connect succeeds in this step.
ConnectionMade == ws_pc = "connecting" /\ ws_pc' \in {"resubscribe", "receiving"}

\* C22: on every successful connection made while tokens are subscribed, a
\* subscribe message listing the whole subscribed set, as subscribe() and
\* unsubscribe() have left it, has been sent when the receive loop starts,
\* and no inbound message of the connection is processed before that.
C22_ResubscribedOnConnect ==
    [][ /\ ConnectionMade =>
            /\ subscribed_tokens # {} =>
                 resub' = [sent |-> TRUE, assets |-> subscribed_tokens]
            /\ ~processed'
        /\ (processed' /\ ~processed) => ws_pc = "receiving" ]_vars

\* ----------------------------------------------------------------- C23
\* C23: with ws_max_reconnects = 0 the feed leaves _run_loop only after
\* stop(); with ws_max_reconnects = N > 0 it neither waits nor connects
\* again once N connection attempts have failed in a row.
C23_ReconnectLimit ==
    /\ (ws_max_reconnects = 0 /\ running) => ws_pc # "stopped"
    /\ (ws_max_reconnects > 0 /\ fails >= ws_max_reconnects) =>
           ws_pc \notin {"backoff", "connecting"}

\* ===================================================== the market finder
\* MarketFinder.fetch_active_rounds (src/market_finder.py) on its own, as a
\* function of what the listing endpoint answers.

\* params["limit"]: the size of a full page, 100 in the code, scaled down.
PageLimit == 2
\* The reading of time.time() that is_active compares end_time with.
WallClock == 1
\* "r.end_time or float('inf')", the sort key of a round without end time.
Infinity == 99

\* A market entry of the listing: its condition id (0: none), whether its
\* question names BTC and up/down, whether _extract_tokens finds both an UP
\* and a DOWN token in it, whether the price of every token of its tokens
\* list, of whatever outcome, converts with float(), and its parsed end
\* time (NONE: missing or not ISO-8601; 0: in the past).
MarketEntry(cid, btc, tokens, price_ok, end_time) ==
    [cid |-> cid, btc |-> btc, tokens |-> tokens, price_ok |-> price_ok,
     end_time |-> end_time]

MarketEntries ==
    { MarketEntry(1, TRUE, TRUE, TRUE, 5),      \* a round ending at 5
      MarketEntry(2, TRUE, TRUE, TRUE, 3),      \* a round ending sooner
      MarketEntry(2, TRUE, TRUE, TRUE, 0),      \* a round that has ended
      MarketEntry(1, TRUE, TRUE, FALSE, 5),     \* a token price of "n/a"
      MarketEntry(1, TRUE, FALSE, TRUE, 5),     \* a lone UP token
      MarketEntry(1, TRUE, FALSE, FALSE, 5),    \* a lone token priced "n/a"
      MarketEntry(3, TRUE, TRUE, TRUE, NONE),   \* no end date
      MarketEntry(3, FALSE, TRUE, TRUE, 5) }    \* another market of the tag

\* One answer of the listing endpoint: a batch of entries, or a failure
\* (connection error, HTTP error status, a body that is not JSON).
Batches == UNION { [1..n -> MarketEntries] : n \in 0..PageLimit }
PageAnswers == { [ok |-> TRUE, batch |-> b] : b \in Batches }
                   \cup { [ok |-> FALSE, batch |-> <<>>] }
Listings == UNION { [1..n -> PageAnswers] : n \in 0..MaxPages }

\* The paging loop: the entries of the pages read, or failed if a request
\* raised.  A request past the answers given gets an empty page.
RECURSIVE ReadPages(_, _, _)
ReadPages(pages, i, raw_markets) ==
    IF i > Len(pages) THEN [failed |-> FALSE, raw_markets |-> raw_markets]
    ELSE IF ~pages[i].ok THEN [failed |-> TRUE, raw_markets |-> <<>>]
    ELSE IF pages[i].batch = <<>>
    THEN [failed |-> FALSE, raw_markets |-> raw_markets]
    ELSE IF Len(pages[i].batch) < PageLimit
    THEN [failed |-> FALSE, raw_markets |-> raw_markets \o pages[i].batch]
    ELSE ReadPages(pages, i + 1, raw_markets \o pages[i].batch)

\* The keys of by_condition, in the order of their first appearance.
RECURSIVE ConditionIds(_, _)
ConditionIds(ms, acc) ==
    IF ms = <<>> THEN acc
    ELSE IF Head(ms).cid = 0 \/ \E i \in 1..Len(acc) : acc[i] = Head(ms).cid
    THEN ConditionIds(Tail(ms), acc)
    ELSE ConditionIds(Tail(ms), Append(acc, Head(ms).cid))

\* _extract_tokens raises on this entry: float() of a token's price, which
\* is taken for every token of the list before its outcome is looked at.
ExtractRaises(m) == ~m.price_ok

\* BTCRound.is_active
IsActive(end_time) ==
    IF end_time = NONE THEN TRUE ELSE end_time - WallClock > 0

\* The inner loop over the markets of one condition id: the first entry
\* with both tokens makes the round (kept if active) and ends the loop.
RECURSIVE ResolveCondition(_, _)
ResolveCondition(cid, ms) ==
    IF ms = <<>> THEN [raised |-> FALSE, rounds |-> <<>>]
    ELSE IF ExtractRaises(Head(ms)) THEN [raised |-> TRUE, rounds |-> <<>>]
    ELSE IF Head(ms).tokens
    THEN [raised |-> FALSE,
          rounds |-> IF IsActive(Head(ms).end_time)
                     THEN <<[condition_id |-> cid, end_time |-> Head(ms).end_time]>>
                     ELSE <<>>]
    ELSE ResolveCondition(cid, Tail(ms))

\* The loop over by_condition.
RECURSIVE ResolveAll(_, _, _)
ResolveAll(cids, ms, rounds) ==
    IF cids = <<>> THEN [raised |-> FALSE, rounds |-> rounds]
    ELSE LET r == ResolveCondition(Head(cids),
                                   SelectSeq(ms, LAMBDA m : m.cid = Head(cids)))
         IN  IF r.raised THEN [raised |-> TRUE, rounds |-> <<>>]
             ELSE ResolveAll(Tail(cids), ms, rounds \o r.rounds)

SortKey(r) == IF r.end_time = NONE THEN Infinity ELSE r.end_time

\* list.sort(key=...): stable, ascending.
RECURSIVE InsertSorted(_, _)
InsertSorted(q, r) ==
    IF q = <<>> THEN <<r>>
    ELSE IF SortKey(Last(q)) <= SortKey(r) THEN Append(q, r)
    ELSE Append(InsertSorted(SubSeq(q, 1, Len(q) - 1), r), Last(q))
RECURSIVE SortRounds(_)
SortRounds(q) ==
    IF q = <<>> THEN <<>>
    ELSE InsertSorted(SortRounds(SubSeq(q, 1, Len(q) - 1)), Last(q))

\* fetch_active_rounds: what it returns, or that it raised.
FetchActiveRounds(pages) ==
    LET read == ReadPages(pages, 1, <<>>)
        btc_markets == SelectSeq(read.raw_markets, LAMBDA m : m.btc)
        res == ResolveAll(ConditionIds(btc_markets, <<>>), btc_markets, <<>>)
    IN  IF read.failed THEN [raised |-> FALSE, rounds |-> <<>>]
        ELSE IF res.raised THEN [raised |-> TRUE, rounds |-> <<>>]
        ELSE [raised |-> FALSE, rounds |-> SortRounds(res.rounds)]

InitFinder ==
    /\ EngineConstructed
    /\ FeedConstructed(DefaultMaxReconnects)
    /\ listing \in Listings
    /\ fetched = NotFetched
    /\ DequeConstructed
    /\ SwitchConstructed

\* One poll: fetch_active_rounds runs on the listing.
Fetch ==
    /\ ~fetched.done
    /\ fetched' = [done |-> TRUE,
                   raised |-> FetchActiveRounds(listing).raised,
                   rounds |-> FetchActiveRounds(listing).rounds]
    /\ UNCHANGED <<listing, engineVars, replay, attached, trades_at_attach, feedVars,
                   dequeVars, switchVars>>

NextFinder == Fetch

SpecFinder == InitFinder /\ [][NextFinder]_vars

\* ----------------------------------------------------------------- C24
\* A request of the poll raised.
RequestFailed(pages) == ReadPages(pages, 1, <<>>).failed

\* C24: fetch_active_rounds never raises, and a poll in which a request
\* failed returns the empty list.
C24_FetchNeverRaises ==
    fetched.done =>
        /\ ~fetched.raised
        /\ RequestFailed(listing) => fetched.rounds = <<>>

\* ----------------------------------------------------------------- C25
\* C25: the State value changes only along IDLE -> WATCHING and
\* RESET -> WATCHING (attach_round), WATCHING -> LEG1_FILLED (a Leg-1 order
\* is made), LEG1_FILLED -> WATCHING (the Leg-1 order failed),
\* WATCHING -> IDLE (a handled tick finds the window expired),
\* LEG1_FILLED -> LEG2_FILLED or RESET (the Leg-2 order filled) and
\* any -> IDLE (disable()).
C25_TransitionsAllowed ==
    [][ state' # state =>
          \/ state \in {"IDLE", "RESET"} /\ state' = "WATCHING" /\ AttachInvoked
          \/ state = "WATCHING" /\ state' = "LEG1_FILLED" /\ MadeLeg(1)
          \/ /\ state = "LEG1_FILLED" /\ state' = "WATCHING"
             /\ OrderReturned /\ last' = "leg1_fail"
          \/ state = "WATCHING" /\ state' = "IDLE" /\ TickHandled /\ expired'
          \/ /\ state = "LEG1_FILLED" /\ state' \in {"LEG2_FILLED", "RESET"}
             /\ OrderReturned /\ last' = "leg2_ok"
          \/ state' = "IDLE" /\ DisableInvoked ]_vars

\* ----------------------------------------------------------------- C26
\* C26: right after attach_round(r) the state is WATCHING, the current round
\* is r, the price history is empty, the attach time is the clock's reading
\* and the five leg fields are None, whatever came before.
C26_AttachResetsRound ==
    [][ AttachInvoked =>
          /\ state' = "WATCHING"
          /\ current_round' = BTCRound(poll_nearest)
          /\ price_history' = [t \in TokenIds |-> <<>>]
          /\ round_started_at' = now
          /\ leg1_outcome' = "None"
          /\ leg1_token' = NoToken
          /\ leg1_entry_price' = NONE
          /\ leg1_shares' = NONE
          /\ leg2_token' = NoToken ]_vars

\* ----------------------------------------------------------------- C27
\* An awaited Leg-2 order returns filled in this step.
Leg2Fills ==
    OrderReturned /\ calls[1].leg = 2 /\ last' = "leg2_ok"

\* C27: when the Leg-2 order fills, the same step appends exactly one Trade,
\* adds its profit and combined cost to the running totals, removes the
\* leg-1 open position, clears the leg fields, the attach time and the price
\* history and leaves the state RESET; state RESET is left only by
\* attach_round or disable(), and no order is made in it.
C27_Leg2FillCompletesRound ==
    [][ /\ Leg2Fills =>
            /\ Len(trade_history') = Len(trade_history) + 1
            /\ SubSeq(trade_history', 1, Len(trade_history)) = trade_history
            /\ Last(trade_history').leg2_price = calls[1].max_price
            /\ total_profit' = total_profit + Last(trade_history').profit
            /\ total_cost' = total_cost + Last(trade_history').combined_cost
            /\ Len(open_positions) >= 1
            /\ \A i \in 1..Len(open_positions') : open_positions'[i].leg # 1
            /\ leg1_outcome' = "None"
            /\ leg1_token' = NoToken
            /\ leg1_entry_price' = NONE
            /\ leg1_shares' = NONE
            /\ leg2_token' = NoToken
            /\ price_history' = [t \in TokenIds |-> <<>>]
            /\ state' = "RESET"
            /\ calls' = <<>>
        /\ (state = "RESET" /\ state' # "RESET") =>
               (AttachInvoked \/ DisableInvoked)
        /\ OrderMade => state # "RESET" ]_vars

\* ----------------------------------------------------------------- C28
\* C28: a tick of the Leg-1 token handled in state LEG1_FILLED makes no
\* order and changes neither the state nor a leg field, an open position,
\* the trade history or a running total; of the price history only the
\* deque of that token changes, by the new point.
C28_SameSideTickIgnored ==
    [][ ( /\ TickHandled
          /\ state = "LEG1_FILLED"
          /\ leg1_token # NoToken
          /\ HandledToken = leg1_token.token_id )
        => /\ ~OrderMade
           /\ UNCHANGED <<state, enabled, current_round, legVars, pnlVars,
                          round_started_at>>
           /\ \A t \in TokenIds \ {HandledToken} :
                  price_history'[t] = price_history[t]
           /\ LET stamp == Last(price_history'[HandledToken]).ts
              IN  \/ stamp = now'
                  \/ waiters # <<>> /\ stamp = waiters[1].ts ]_vars
\* Leg 1 filled on UP at 0.20; an UP tick at 0.40, which would meet the
\* hedge condition if it counted, has been handled and nothing has followed.
C28_Witness ==
    /\ state = "LEG1_FILLED"
    /\ last = "tick"
    /\ leg1_token # NoToken
    /\ leg1_entry_price > 0
    /\ Last(price_history[leg1_token.token_id]).ts = now
    /\ leg1_entry_price + Last(price_history[leg1_token.token_id]).price <= hedge_sum
    /\ price_history[leg2_token.token_id] = <<>>
    /\ calls = <<>>
    /\ trade_history = <<>>

\* ----------------------------------------------------------------- C29
\* C29: started in LEG1_FILLED, two interleavings of the same UP ticks and
\* the same DOWN ticks have Leg 2 ordered by the same tick of the opposite
\* token (the n-th of its sequence, or none) at the same price, record the
\* same Trades and end in the same State value.
C29_SameLeg2Trigger ==
    (ReplayDone /\ replay.start = "leg1_filled") =>
        /\ replay.hit = replay.hit1
        /\ replay.hit.outcome \in {"None", "DOWN"}
        /\ trade_history = replay.first[5]
        /\ state = replay.first[1]
        /\ (replay.hit # NoHit) =>
              /\ Len(trade_history) = 1
              /\ trade_history[1].leg2_price = replay.hit.price
              /\ state = "RESET"
\* Two different interleavings; the first DOWN tick missed the hedge
\* condition and the second one, with UP ticks around it, made the order.
C29_Witness ==
    /\ ReplayDone
    /\ replay.start = "leg1_filled"
    /\ replay.order # replay.order1
    /\ replay.hit.index = 2
    /\ replay.hit1.index = 2
    /\ Len(trade_history) = 1

\* ----------------------------------------------------------------- C30
\* C30: over one execution of the poll loop attach_round is called at most
\* once with any one round id.
C30_AttachOncePerRound ==
    \A i, j \in 1..Len(attached) : i # j => attached[i] # attached[j]

\* ------------------------------------------------- one token's history
\* The price history of one token taken alone: ticks of that token are
\* recorded one after the other (_record_price) and the drop is computed
\* after each insert (_compute_drop), as on_price_update and
\* _handle_watching do for a tick handled in WATCHING.
\* Prices a tick may carry: 0.00, 0.40, 0.80.
SamplePrices == {0, 40, 80}
\* Seconds from one tick's timestamp to the next: the same reading of the
\* clock, one second, the drop window, the trim horizon, beyond it.
Gaps == {0, 1, drop_window_sec, drop_window_sec + TrimBufferSec,
         drop_window_sec + TrimBufferSec + 1}

InitHistory ==
    /\ EngineConstructed
    /\ FeedConstructed(DefaultMaxReconnects)
    /\ FinderConstructed
    /\ DequeConstructed
    /\ SwitchConstructed

\* One tick of the token, g seconds after the previous one (the first tick
\* g seconds after 0).
Insert(price, g) ==
    LET ts == (IF deque = <<>> THEN 0 ELSE Last(deque).ts) + g
    IN  /\ Len(deque) < MaxSamples
        /\ ts <= MaxStamp
        /\ deque' = RecordPoint(deque, price, ts)
        /\ computed_drop' = ComputeDrop(deque')
        /\ UNCHANGED <<engineVars, replay, attached, trades_at_attach, feedVars,
                       finderVars, switchVars>>

NextHistory == \E p \in SamplePrices, g \in Gaps : Insert(p, g)

SpecHistory == InitHistory /\ [][NextHistory]_vars

\* ----------------------------------------------------------------- C31
\* The samples of q that lie in the drop window of its newest sample, and
\* the earliest of them.
InDropWindow(q) == {i \in 1..Len(q) : q[i].ts >= q[Len(q)].ts - drop_window_sec}
Reference(q) == q[CHOOSE i \in InDropWindow(q) : \A j \in InDropWindow(q) : i <= j]

\* C31: after every insert the computed drop is absent when the history
\* holds fewer than two samples or the reference price is zero, and otherwise
\* it is max(0, (oldest - current) / oldest), oldest being the earliest
\* sample no older than drop_window_sec before the newest one and current the
\* newest sample: never negative, and divided by the oldest price.
C31_DropFromOldest ==
    deque # <<>> =>
        IF Len(deque) < 2 \/ Reference(deque).price = 0
        THEN computed_drop = NoDrop
        ELSE LET oldest == Reference(deque).price
                 current == Last(deque).price
             IN  /\ computed_drop.den = oldest
                 /\ computed_drop.num = (IF oldest - current > 0
                                         THEN oldest - current ELSE 0)
                 /\ computed_drop.num >= 0
\* A drop is computed from a history that still holds a sample older than
\* the drop window, at another price than the reference.
C31_Witness ==
    /\ Len(deque) >= 3
    /\ 1 \notin InDropWindow(deque)
    /\ deque[1].price # Reference(deque).price
    /\ computed_drop # NoDrop
    /\ computed_drop.num > 0

\* ----------------------------------------------------------------- C40
\* The samples of q no older than drop_window_sec + 1 s before timestamp ts.
Retained(q, ts) ==
    SelectSeq(q, LAMBDA pt : pt.ts >= ts - (drop_window_sec + TrimBufferSec))

\* C40: every insert into the token's history leaves it ordered by
\* timestamp, with every sample no older than drop_window_sec + 1 s before
\* the newest one; the samples older than that are removed by that same
\* insert and no other sample is (timestamps of the ticks non-decreasing).
C40_TrimmedOnInsert ==
    [][ deque' # deque
        => LET newest == Last(deque')
           IN  /\ \A i \in 1..Len(deque') - 1 : deque'[i].ts <= deque'[i + 1].ts
               /\ \A i \in 1..Len(deque') :
                      deque'[i].ts >= newest.ts - (drop_window_sec + TrimBufferSec)
               /\ deque' = Append(Retained(deque, newest.ts), newest) ]_vars
\* The first tick comes no later than the longest gap after 0, so a history
\* that begins later has had a sample removed; it still holds a sample
\* exactly drop_window_sec + 1 s older than the newest.
C40_Witness ==
    /\ Len(deque) >= 2
    /\ deque[1].ts > drop_window_sec + TrimBufferSec + 1
    /\ Last(deque).ts - deque[1].ts = drop_window_sec + TrimBufferSec

\* ----------------------------------------------------------------- C32
\* The run that starts with Leg 1 filled, with the program's own tasks kept
\* running.
SpecLeg1FilledTimed == InitLeg1Filled /\ [][Next]_vars /\ TasksRun

\* C32: with the state RESET after a completed Trade, a poll whose nearest
\* round has another id than the round attached last decides to switch to
\* it; and once it has, attach_round is called for that round and the engine
\* is WATCHING it, unless the strategy is disabled in between.
C32_NextRoundAfterTrade ==
    /\ [][ \A rid \in RoundIds :
              ( /\ PollRounds(BTCRound(rid))
                /\ state = "RESET"
                /\ rid # current_round_id )
              => (Switching' /\ poll_nearest' = rid) ]_vars
    /\ \A rid \in RoundIds :
          (Switching /\ poll_nearest = rid /\ state = "RESET" /\ enabled)
          ~> \/ ~enabled
             \/ /\ last = "attach"
                /\ state = "WATCHING"
                /\ current_round = BTCRound(rid)
\* Right after the Trade of round 2 the poll has found round 1 nearest and
\* switches to it.
C32_Witness ==
    /\ state = "RESET"
    /\ enabled
    /\ last = "leg2_ok"
    /\ Len(trade_history) = 1
    /\ poll_pc = "unsubscribe"
    /\ poll_nearest # trade_history[1].round_id

\* ----------------------------------------------------------------- C33
\* A poll finds a round nearest whose id is not the id attached last.
FindsLaterRound ==
    \E rid \in RoundIds : rid # current_round_id /\ PollRounds(BTCRound(rid))

\* C33: when the poll loop keeps finding later rounds, an engine that holds
\* a filled Leg 1 (no order awaited) is eventually attached to a round again
\* and WATCHING, or has recorded the Trade, unless the strategy is disabled.
C33_LeavesLeg1Filled ==
    []<><<FindsLaterRound>>_vars
    => ( (state = "LEG1_FILLED" /\ enabled /\ leg1_ok /\ calls = <<>>)
         ~> \/ ~enabled
            \/ last = "leg2_ok"
            \/ last = "attach" /\ state = "WATCHING" )

\* ----------------------------------------------------------------- C34
\* enable() has just run after a disable(): a round had been attached
\* before (the poll loop remembers its id) and disable() has cleared it.
EnabledAgain ==
    /\ last = "auto_on"
    /\ current_round = NoRound
    /\ current_round_id # 0

\* C34: when the poll loop keeps finding rounds with another id than the
\* one it attached last, an engine enabled again after a disable() is
\* eventually attached to a round and WATCHING, wherever the disable() fell
\* (also during an awaited order), unless it is disabled again.
C34_EnabledAgainAttaches ==
    []<><<FindsLaterRound>>_vars
    => ( EnabledAgain
         ~> \/ ~enabled
            \/ state = "WATCHING" /\ current_round # NoRound )

\* ----------------------------------------------------------------- C35
\* C35: every recorded Trade names a round, its Leg-1 token is that round's
\* token of leg1_outcome, its Leg-2 token is that round's token of
\* leg2_outcome, and the two outcomes are UP and DOWN in either order (so
\* the two tokens are the two distinct tokens of the one round).
C35_TradeLegsOfOneRound ==
    \A i \in 1..Len(trade_history) :
        LET t == trade_history[i]
        IN  /\ t.round_id \in RoundIds
            /\ {t.leg1_outcome, t.leg2_outcome} = Outcomes
            /\ t.leg1_token_id = TokId(t.round_id, t.leg1_outcome)
            /\ t.leg2_token_id = TokId(t.round_id, t.leg2_outcome)
            /\ t.leg1_token_id # t.leg2_token_id
            /\ {t.leg1_token_id, t.leg2_token_id} = RoundTokens(t.round_id)
\* The Leg-2 order of round 2 has just filled and its Trade is recorded.
C35_Witness ==
    /\ last = "leg2_ok"
    /\ Len(trade_history) = 1
    /\ trade_history[1].round_id = 2

\* ----------------------------------------------------------------- C36
LegFieldsUnset ==
    /\ leg1_outcome = "None"
    /\ leg1_token = NoToken
    /\ leg1_entry_price = NONE
    /\ leg1_shares = NONE
    /\ leg2_token = NoToken
\* All five are set, the Leg-1 token is a token of the attached round and
\* the Leg-2 token is that round's other token.
LegFieldsSet ==
    /\ leg1_outcome \in Outcomes
    /\ leg1_token # NoToken
    /\ leg1_entry_price # NONE
    /\ leg1_shares # NONE
    /\ current_round # NoRound
    /\ leg1_token.token_id = TokId(current_round.condition_id, leg1_outcome)
    /\ leg2_token.token_id = TokId(current_round.condition_id, Leg2Outcome(leg1_outcome))

\* C36: whenever no buy_market call is awaited, the leg fields are all unset
\* in IDLE, WATCHING and RESET and all set in LEG1_FILLED, the Leg-2 token
\* being the attached round's token opposite to the Leg-1 token.
C36_LegFieldsMatchState ==
    calls = <<>>
    => /\ state \in {"IDLE", "WATCHING", "RESET"} => LegFieldsUnset
       /\ state = "LEG1_FILLED" => LegFieldsSet

TradeOfRound2 ==
    LET round == BTCRound(2)
        cost == CombinedCost(round.up_token.price, 10, 40, 10)
    IN  [round_id |-> 2,
         leg1_outcome |-> "UP",
         leg1_token_id |-> round.up_token.token_id,
         leg1_price |-> round.up_token.price,
         leg1_shares |-> 10,
         leg2_outcome |-> "DOWN",
         leg2_token_id |-> round.down_token.token_id,
         leg2_price |-> 40,
         leg2_shares |-> 10,
         combined_cost |-> cost,
         expected_payout |-> Payout(10),
         profit |-> Profit(Payout(10), cost)]

\* A run that starts after that Trade: the poll loop has found round 1
\* nearest and attached it at 9.  The run is left MaxTicks ticks and
\* MaxAttaches - 2 attach_round calls.
InitRevisit ==
    /\ EngineIs([StartValues("attached") EXCEPT
                    !.current_round = BTCRound(1),
                    !.round_started_at = 9,
                    !.total_profit = TradeOfRound2.profit,
                    !.total_cost = TradeOfRound2.combined_cost,
                    !.trade_history = <<TradeOfRound2>>,
                    !.current_round_id = 1,
                    !.now = 9])
    /\ replay = NoReplay
    /\ attached = <<2, 1>>
    /\ trades_at_attach = 1
    /\ FeedConstructed(DefaultMaxReconnects)
    /\ FinderConstructed
    /\ DequeConstructed
    /\ SwitchConstructed

SpecRevisit == InitRevisit /\ [][NextPoll]_vars

\* C38: no more than one Trade has been recorded since the latest
\* attach_round call, and no two Trades of the history carry the same round
\* id.
C38_OneTradePerAttach ==
    /\ Len(trade_history) <= trades_at_attach + 1
    /\ \A i, j \in 1..Len(trade_history) :
           i # j => trade_history[i].round_id # trade_history[j].round_id

\* ============================================ the poll loop and the feed
\* market_poll_loop's switch of rounds together with the feed's set of
\* subscribed tokens and its filter on inbound price events.  The callback
\* is recorded, not run: what it does to the engine is Tick above.

\* "if not token_id or token_id not in self._subscribed_tokens: return"
\* without the test of the set.
PassesFilterAny(token_id, tokens) == token_id # 0
\* "if not token_id or token_id not in self._subscribed_tokens: return" of
\* _process_price_event, negated; 0 is the event that names no token.
PassesFilter(token_id, tokens) == token_id # 0 /\ token_id \in tokens

\* subscribe(token_ids), as a change of the feed: the new tokens join the
\* set, and on an open connection a subscribe message for them is sent
\* (sent) or the send raises and is logged.
Subscribe(token_ids, sent) ==
    LET new_tokens == token_ids \ subscribed_tokens
    IN  /\ subscribed_tokens' = subscribed_tokens \cup new_tokens
        /\ server_assets' = IF new_tokens # {} /\ Connected /\ sent
                            THEN server_assets \cup new_tokens
                            ELSE server_assets

\* unsubscribe(token_ids), as a change of the feed.
Unsubscribe(token_ids, sent) ==
    LET remove == token_ids \cap subscribed_tokens
    IN  /\ subscribed_tokens' = subscribed_tokens \ remove
        /\ server_assets' = IF remove # {} /\ Connected /\ sent
                            THEN server_assets \ remove
                            ELSE server_assets

\* What a step of the poll loop that calls the feed leaves alone.
switchFrame == <<strategyVars, lockVars, current_round_id, now, histVars, replay,
                 attached, trades_at_attach, finderVars, dequeVars, running, ws_conn,
                 reconnect_count, ws_pc, ws_max_reconnects, delay, fails, streak,
                 resub, processed, callbacks>>

\* fetch_active_rounds returned rounds, `nearest` first.  Without
\* need_new_round the loop sleeps.  With it, it calls unsubscribe with the
\* tokens it holds and awaits the send; holding none, it calls subscribe
\* with the new round's two tokens at once.
SwitchBegin(nearest, sent) ==
    /\ poll_pc = "fetch"
    /\ IF ~NeedNewRound(nearest)
       THEN /\ poll_pc' = "sleep"
            /\ UNCHANGED <<poll_nearest, subscribed_tokens, server_assets>>
       ELSE /\ poll_nearest' = nearest.condition_id
            /\ IF poll_subscribed_tokens # {}
               THEN /\ Unsubscribe(poll_subscribed_tokens, sent)
                    /\ poll_pc' = "unsubscribe"
               ELSE /\ Subscribe(RoundTokens(nearest.condition_id), sent)
                    /\ poll_pc' = "subscribe"
    /\ UNCHANGED poll_subscribed_tokens
    /\ UNCHANGED switchFrame

\* unsubscribe returned: "subscribed_tokens.clear()", then subscribe is
\* called with the new round's two tokens and its send awaited.
SwitchSubscribe(sent) ==
    /\ poll_pc = "unsubscribe"
    /\ poll_subscribed_tokens' = {}
    /\ Subscribe(RoundTokens(poll_nearest), sent)
    /\ poll_pc' = "subscribe"
    /\ UNCHANGED poll_nearest
    /\ UNCHANGED switchFrame

\* subscribe returned: "subscribed_tokens.update(new_tokens)", then
\* "current_round_id = nearest.condition_id; strategy.attach_round(nearest)".
SwitchAttach ==
    /\ AttachDue
    /\ poll_subscribed_tokens' = poll_subscribed_tokens \cup RoundTokens(poll_nearest)
    /\ UNCHANGED <<replay, attached, trades_at_attach, feedVars, finderVars, dequeVars,
                   callbacks>>

\* The receive loop, not inside a callback, gets a price event that names
\* token_id (0: none) and carries a price (NONE: no price, bids or asks):
\* _process_price_event returns early on its filter and on an event
\* without price, and else awaits the callback, which main() binds to
\* strategy.on_price_update; the loop takes no further event until the
\* callback has returned and the engine's lock is free again.
WsPriceEvent(token_id, price, d) ==
    /\ ws_pc = "receiving"
    /\ running
    /\ ~locked
    /\ processed' = TRUE
    /\ IF PassesFilter(token_id, subscribed_tokens) /\ price # NONE
       THEN /\ Len(callbacks) < MaxCallbacks
            /\ callbacks' = Append(callbacks, token_id)
            /\ OnPriceUpdate(token_id, price, d)
       ELSE UNCHANGED <<callbacks, engineVars>>
    /\ UNCHANGED <<running, ws_conn, reconnect_count, subscribed_tokens, ws_pc,
                   ws_max_reconnects, delay, fails, streak, server_assets, resub>>
    /\ UNCHANGED <<replay, attached, trades_at_attach, finderVars, dequeVars,
                   poll_subscribed_tokens>>

\* "quit" in main(): the engine and the poll loop as in QuitEngine.  The
\* feed's task is cancelled too: inside the "async with" (sending the
\* resubscription, receiving, or inside a callback) it leaves through the
\* exit of the "async with", which closes the connection and awaits that;
\* connecting, sleeping or not yet started it ends at once.  _running stays
\* as it is.
QuitWired ==
    /\ QuitEngine
    /\ ws_conn' = IF ws_conn = "open" THEN "closing" ELSE ws_conn
    /\ ws_pc' = IF ws_pc \in {"resubscribe", "receiving", "exiting"}
                THEN "exiting"
                ELSE "stopped"
    /\ UNCHANGED <<running, reconnect_count, subscribed_tokens, ws_max_reconnects,
                   delay, fails, streak, server_assets, resub, processed>>
    /\ UNCHANGED <<replay, attached, trades_at_attach, finderVars, dequeVars,
                   switchVars>>

\* main() after "quit": gather() returns when the cancelled tasks have
\* ended, and the finally clause awaits ws.stop(), which finds the
\* connection closed.  (If start() never ran, stop() changes nothing.)
MainStop ==
    /\ Cancelled
    /\ ws_pc = "stopped"
    /\ running
    /\ WsStop

\* websockets.connect raises in main(), MaxWiredFailures times in a row at
\* most.
WiredConnectFails ==
    /\ fails < MaxWiredFailures
    /\ WsConnectFails

\* "auto on 10 move=0.5 windowMin=0.15", the one configuration of the runs
\* of SpecSwitch.
SwitchConfigs ==
    { [shares |-> 10, hedge_sum |-> DefaultHedgeSum, move_threshold |-> 50,
       window_minutes |-> 3] }

\* main(): the feed, the poll loop and the operator's commands as tasks of
\* one event loop, with the engine behind the feed's callback.
NextSwitch ==
    \/ \E c \in SwitchConfigs : AutoOn(c)
    \/ Disable
    \/ QuitWired
    \/ MainStop
    \/ PollFetch
    \/ PollNoRounds
    \/ \E rid \in RoundIds, sent \in BOOLEAN : SwitchBegin(BTCRound(rid), sent)
    \/ \E sent \in BOOLEAN : SwitchSubscribe(sent)
    \/ SwitchAttach
    \/ WsStart
    \/ \E sent \in BOOLEAN : WsConnected(sent)
    \/ WsResubscribed
    \/ WiredConnectFails
    \/ WsMessage
    \/ WsExited
    \/ WsLost
    \/ WsDrop
    \/ WsSleepDone
    \/ \E t \in TokenIds \cup {0}, p \in TickPrices \cup {NONE}, d \in Delays :
           WsPriceEvent(t, p, d)
    \/ \E i \in 1..MaxWaiters + 1, ok \in BOOLEAN : OrderReturns(i, ok)

SpecSwitch == Init /\ [][NextSwitch]_vars

\* The poll loop has attached a round and is not in the middle of a switch.
Switched == current_round_id # 0 /\ poll_pc \in {"sleep", "fetch"}

\* C39: the callback is invoked only with a token that is in the subscribed
\* set at that moment; whenever the poll loop has completed a switch the
\* subscribed set is exactly the two tokens of the round it attached; so a
\* callback invoked after a switch carries a token of the attached round,
\* never one of a superseded round.
C39_OnlySubscribedTicks ==
    [][ /\ callbacks' # callbacks
            => /\ Last(callbacks') \in subscribed_tokens
               /\ Switched => Last(callbacks') \in RoundTokens(current_round_id)
        /\ Switched' => subscribed_tokens' = RoundTokens(current_round_id') ]_vars

\* The loop has switched from round 1 to round 2 with the unsubscribe
\* message lost, so the connection still delivers round 1's tokens; the
\* callback was invoked with a token of round 1 before the switch and with
\* one of round 2 after it.
C39_Witness ==
    /\ current_round_id = 2
    /\ poll_pc = "sleep"
    /\ Len(callbacks) = 2
    /\ callbacks[1] \in RoundTokens(1)
    /\ callbacks[2] \in RoundTokens(2)
    /\ RoundTokens(1) \subseteq server_assets
====
